---------------------------- MODULE Spec2Model ----------------------------
(***************************************************************************)
(* Model of app.py, the YouTube downloader HTTP API.                       *)
(*                                                                         *)
(* A character is its Unicode code point, a text is a sequence of          *)
(* characters; Text(<<"a", "b">>) spells a text of printable ASCII         *)
(* characters.  Text that the program only passes on or concatenates (the  *)
(* routes, the fixed parts of the response bodies, the texts of            *)
(* exceptions) is a TLA+ string.                                           *)
(*                                                                         *)
(* The values the program handles without knowing their type (what the     *)
(* extraction library returns) are boxed: NoneVal, Bool(b), Num(n),        *)
(* Str(s), List(l), Dict(d).  Every operator on values is defined for all  *)
(* of them.  The library functions the program calls (unquote, str.lower,  *)
(* re.search, str(), list.sort) are modelled as the interpreter, CPython   *)
(* 3.11 with the Unicode 14 tables, computes them.                         *)
(*                                                                         *)
(* The server is threaded: several requests are in service at once, and   *)
(* a handler gives way to the others whenever it waits for the extraction *)
(* library.                                                                *)
(***************************************************************************)
EXTENDS Integers, Sequences, FiniteSets, TLC

VARIABLES
    phase,      \* per client: "idle", "received", "probing" (waiting for
                \* the probe call), "resolving" (waiting for the resolve
                \* call), "responded"
    request,    \* per client: the request in service
    calls,      \* per client: the extractor calls of this request, in order
    response    \* per client: the HTTP response of this request

vars == <<phase, request, calls, response>>

---------------------------------------------------------------------------
(* Bounds of the model.                                                    *)

\* longest format catalog the extractor returns in the service specification
MaxFormats == 2
\* longest format catalog the extractor returns in the ranking specification
MaxCatalog == 6

\* the connections served at the same time
Clients == {"main", "other"}

---------------------------------------------------------------------------
(* Configuration, app.py lines 20-21, and the limits written in the        *)
(* handlers.                                                               *)

MAX_DURATION == 3600
\* filtered_formats[:5]
TopN == 5
\* info.get('description', '')[:500]
DescriptionLimit == 500
\* info.get('tags', [])[:10]
TagLimit == 10

---------------------------------------------------------------------------
(* Python values.                                                          *)

NoneVal == [t |-> "none"]
Bool(b) == [t |-> "bool", b |-> b]
Num(n) == [t |-> "int", v |-> n]
Str(s) == [t |-> "str", s |-> s]
List(l) == [t |-> "list", l |-> l]
\* d is the sequence of the <<key, value>> pairs in insertion order; the
\* keys are character sequences and no two pairs have the same key
Dict(d) == [t |-> "dict", d |-> d]

IsNone(x) == x.t = "none"
IsDict(x) == x.t = "dict"
\* bool is a subclass of int
IsNumber(x) == x.t \in {"bool", "int"}
IntOf(x) == IF x.t = "bool" THEN (IF x.b THEN 1 ELSE 0) ELSE x.v

\* bool(x)
IsTrue(x) ==
    CASE x.t = "none" -> FALSE
      [] x.t = "bool" -> x.b
      [] x.t = "int" -> x.v # 0
      [] x.t = "str" -> x.s # <<>>
      [] x.t = "list" -> x.l # <<>>
      [] x.t = "dict" -> x.d # <<>>

\* type(x).__name__
TypeName(x) ==
    CASE x.t = "none" -> "NoneType"
      [] x.t = "bool" -> "bool"
      [] x.t = "int" -> "int"
      [] x.t = "str" -> "str"
      [] x.t = "list" -> "list"
      [] x.t = "dict" -> "dict"

\* key in d
HasKey(d, k) == \E i \in 1..Len(d.d) : d.d[i][1] = k

\* d.get(key, default)
Get(d, k, default) ==
    IF HasKey(d, k)
    THEN d.d[CHOOSE i \in 1..Len(d.d) : d.d[i][1] = k][2]
    ELSE default

\* x == y
RECURSIVE PyEq(_, _)
PyEq(x, y) ==
    IF IsNumber(x) /\ IsNumber(y) THEN IntOf(x) = IntOf(y)
    ELSE IF x.t # y.t THEN FALSE
    ELSE CASE x.t = "none" -> TRUE
           [] x.t = "str" -> x.s = y.s
           [] x.t = "list" ->
                 /\ Len(x.l) = Len(y.l)
                 /\ \A i \in 1..Len(x.l) : PyEq(x.l[i], y.l[i])
           [] x.t = "dict" ->
                 /\ Len(x.d) = Len(y.d)
                 /\ \A i \in 1..Len(x.d) :
                       /\ HasKey(y, x.d[i][1])
                       /\ PyEq(x.d[i][2], Get(y, x.d[i][1], NoneVal))

\* the result of an expression that may raise: error is the text of the
\* exception, "" when none is raised
Value(v) == [error |-> "", value |-> v]
Raises(text) == [error |-> text, value |-> NoneVal]

\* s < t for two strings: by code point, a proper prefix first
StrLt(s, t) ==
    LET diff == {i \in 1..Len(s) : i <= Len(t) /\ s[i] # t[i]}
    IN  IF \E i \in diff : TRUE
        THEN LET i == CHOOSE j \in diff : \A k \in diff : j <= k
             IN  s[i] < t[i]
        ELSE Len(s) < Len(t)

OrderErrorText(op, x, y) ==
    "'" \o op \o "' not supported between instances of '" \o TypeName(x)
        \o "' and '" \o TypeName(y) \o "'"

\* x < y: numbers by value, strings by code point, lists by their first
\* pair of unequal items; TypeError for any other pair of types
RECURSIVE PyLt(_, _)
PyLt(x, y) ==
    IF IsNumber(x) /\ IsNumber(y) THEN Value(IntOf(x) < IntOf(y))
    ELSE IF x.t = "str" /\ y.t = "str" THEN Value(StrLt(x.s, y.s))
    ELSE IF x.t = "list" /\ y.t = "list"
    THEN LET diff == {i \in 1..Len(x.l) : i <= Len(y.l) /\ ~PyEq(x.l[i], y.l[i])}
         IN  IF \E i \in diff : TRUE
             THEN LET i == CHOOSE j \in diff : \A k \in diff : j <= k
                  IN  PyLt(x.l[i], y.l[i])
             ELSE Value(Len(x.l) < Len(y.l))
    ELSE Raises(OrderErrorText("<", x, y))

\* x > n for an integer n
PyGtInt(x, n) ==
    IF IsNumber(x) THEN Value(IntOf(x) > n)
    ELSE Raises(OrderErrorText(">", x, Num(n)))

\* a query parameter that is not in the query string
Absent == [given |-> FALSE, val |-> <<>>]
Given(s) == [given |-> TRUE, val |-> s]
\* request.args.get(name) is falsy: parameter absent or empty
Falsy(p) == ~p.given \/ p.val = <<>>

\* seq[:n]
FirstN(fs, n) == SubSeq(fs, 1, IF Len(fs) < n THEN Len(fs) ELSE n)

Reverse(s) == [i \in 1..Len(s) |-> s[Len(s) + 1 - i]]

---------------------------------------------------------------------------
(* Characters and text.                                                    *)

\* the printable ASCII characters, code points 32 to 126 (the backquote,
\* which cannot be written in a string, by a name)
Printable ==
    << " ", "!", "\"", "#", "$", "%", "&", "'", "(", ")", "*", "+",
       ",", "-", ".", "/", "0", "1", "2", "3", "4", "5", "6", "7",
       "8", "9", ":", ";", "<", "=", ">", "?", "@", "A", "B", "C",
       "D", "E", "F", "G", "H", "I", "J", "K", "L", "M", "N", "O",
       "P", "Q", "R", "S", "T", "U", "V", "W", "X", "Y", "Z", "[",
       "\\", "]", "^", "_", "backquote", "a", "b", "c", "d", "e", "f", "g",
       "h", "i", "j", "k", "l", "m", "n", "o", "p", "q", "r", "s",
       "t", "u", "v", "w", "x", "y", "z", "{", "|", "}", "~" >>

\* ord(ch)
Ord(ch) ==
    IF ch = "\n" THEN 10
    ELSE 31 + CHOOSE k \in 1..Len(Printable) : Printable[k] = ch

\* the text spelled by a tuple of one-character strings
Text(chars) == [i \in 1..Len(chars) |-> Ord(chars[i])]

\* cp is in one of the ranges <<lo, hi>> of the table
InRanges(cp, ranges) ==
    \E i \in 1..Len(ranges) : ranges[i][1] <= cp /\ cp <= ranges[i][2]

RECURSIVE Flatten(_)
Flatten(ss) == IF ss = <<>> THEN <<>> ELSE Head(ss) \o Flatten(Tail(ss))

\* the digits 0-9, A-F and a-f
HexDigits == (48..57) \cup (65..70) \cup (97..102)

\* the byte written %h1h2
HexByte(h1, h2) ==
    LET value(h) == IF h <= 57 THEN h - 48 ELSE IF h <= 70 THEN h - 55 ELSE h - 87
    IN  16 * value(h1) + value(h2)

\* urllib.parse.unquote, from position i of s: every %XX with two
\* hexadecimal digits is the byte it encodes; any other character cp is kept
\* as it is, written -1 - cp among the bytes
RECURSIVE UnquoteItems(_, _)
UnquoteItems(s, i) ==
    IF i > Len(s) THEN <<>>
    ELSE IF /\ s[i] = 37
            /\ i + 2 <= Len(s)
            /\ s[i + 1] \in HexDigits
            /\ s[i + 2] \in HexDigits
         THEN <<HexByte(s[i + 1], s[i + 2])>> \o UnquoteItems(s, i + 3)
         ELSE <<0 - 1 - s[i]>> \o UnquoteItems(s, i + 1)

\* item k exists and is a continuation byte in lo..hi
ContinuationAt(items, k, lo, hi) ==
    /\ k <= Len(items)
    /\ items[k] >= lo
    /\ items[k] <= hi

\* bytes.decode('utf-8', errors='replace'): a kept character stands for
\* itself, a well-formed sequence of bytes is its character, and each
\* ill-formed prefix is one U+FFFD
RECURSIVE Utf8Decode(_)
Utf8Decode(items) ==
    IF items = <<>> THEN <<>>
    ELSE LET b == items[1]
             \* the range of the second byte of a sequence starting with b
             lo2 == IF b = 224 THEN 160 ELSE IF b = 240 THEN 144 ELSE 128
             hi2 == IF b = 237 THEN 159 ELSE IF b = 244 THEN 143 ELSE 191
             need == IF b >= 194 /\ b <= 223 THEN 1
                     ELSE IF b >= 224 /\ b <= 239 THEN 2
                     ELSE IF b >= 240 /\ b <= 244 THEN 3
                     ELSE 0
             ok2 == ContinuationAt(items, 2, lo2, hi2)
             ok3 == ok2 /\ ContinuationAt(items, 3, 128, 191)
             ok4 == ok3 /\ ContinuationAt(items, 4, 128, 191)
             rest(n) == Utf8Decode(SubSeq(items, n + 1, Len(items)))
             bad == 65533
         IN  IF b < 0 THEN <<0 - 1 - b>> \o rest(1)
             ELSE IF b < 128 THEN <<b>> \o rest(1)
             ELSE IF need = 0 THEN <<bad>> \o rest(1)
             ELSE IF ~ok2 THEN <<bad>> \o rest(1)
             ELSE IF need = 1
                  THEN <<(b - 192) * 64 + (items[2] - 128)>> \o rest(2)
             ELSE IF ~ok3 THEN <<bad>> \o rest(2)
             ELSE IF need = 2
                  THEN <<(b - 224) * 4096 + (items[2] - 128) * 64
                             + (items[3] - 128)>> \o rest(3)
             ELSE IF ~ok4 THEN <<bad>> \o rest(3)
             ELSE <<(b - 240) * 262144 + (items[2] - 128) * 4096
                        + (items[3] - 128) * 64 + (items[4] - 128)>> \o rest(4)

\* urllib.parse.unquote
unquote(s) ==
    IF \A i \in 1..Len(s) : s[i] # 37 THEN s
    ELSE Utf8Decode(UnquoteItems(s, 1))

\* the simple lowercase mappings of Unicode: every character from lo to hi
\* in steps of step maps to the character delta further, <<lo, hi, step,
\* delta>>
LowerRuns ==
    << <<65,90,1,32>>, <<192,214,1,32>>, <<216,222,1,32>>, <<256,302,2,1>>,
       <<306,310,2,1>>, <<313,327,2,1>>, <<330,374,2,1>>, <<376,376,1,-121>>,
       <<377,381,2,1>>, <<385,385,1,210>>, <<386,388,2,1>>, <<390,390,1,206>>,
       <<391,391,1,1>>, <<393,394,1,205>>, <<395,395,1,1>>, <<398,398,1,79>>,
       <<399,399,1,202>>, <<400,400,1,203>>, <<401,401,1,1>>, <<403,403,1,205>>,
       <<404,404,1,207>>, <<406,406,1,211>>, <<407,407,1,209>>, <<408,408,1,1>>,
       <<412,412,1,211>>, <<413,413,1,213>>, <<415,415,1,214>>, <<416,420,2,1>>,
       <<422,422,1,218>>, <<423,423,1,1>>, <<425,425,1,218>>, <<428,428,1,1>>,
       <<430,430,1,218>>, <<431,431,1,1>>, <<433,434,1,217>>, <<435,437,2,1>>,
       <<439,439,1,219>>, <<440,440,1,1>>, <<444,444,1,1>>, <<452,452,1,2>>,
       <<453,453,1,1>>, <<455,455,1,2>>, <<456,456,1,1>>, <<458,458,1,2>>,
       <<459,475,2,1>>, <<478,494,2,1>>, <<497,497,1,2>>, <<498,500,2,1>>,
       <<502,502,1,-97>>, <<503,503,1,-56>>, <<504,542,2,1>>, <<544,544,1,-130>>,
       <<546,562,2,1>>, <<570,570,1,10795>>, <<571,571,1,1>>, <<573,573,1,-163>>,
       <<574,574,1,10792>>, <<577,577,1,1>>, <<579,579,1,-195>>, <<580,580,1,69>>,
       <<581,581,1,71>>, <<582,590,2,1>>, <<880,882,2,1>>, <<886,886,1,1>>,
       <<895,895,1,116>>, <<902,902,1,38>>, <<904,906,1,37>>, <<908,908,1,64>>,
       <<910,911,1,63>>, <<913,929,1,32>>, <<931,939,1,32>>, <<975,975,1,8>>,
       <<984,1006,2,1>>, <<1012,1012,1,-60>>, <<1015,1015,1,1>>, <<1017,1017,1,-7>>,
       <<1018,1018,1,1>>, <<1021,1023,1,-130>>, <<1024,1039,1,80>>, <<1040,1071,1,32>>,
       <<1120,1152,2,1>>, <<1162,1214,2,1>>, <<1216,1216,1,15>>, <<1217,1229,2,1>>,
       <<1232,1326,2,1>>, <<1329,1366,1,48>>, <<4256,4293,1,7264>>, <<4295,4295,1,7264>>,
       <<4301,4301,1,7264>>, <<5024,5103,1,38864>>, <<5104,5109,1,8>>, <<7312,7354,1,-3008>>,
       <<7357,7359,1,-3008>>, <<7680,7828,2,1>>, <<7838,7838,1,-7615>>, <<7840,7934,2,1>>,
       <<7944,7951,1,-8>>, <<7960,7965,1,-8>>, <<7976,7983,1,-8>>, <<7992,7999,1,-8>>,
       <<8008,8013,1,-8>>, <<8025,8031,2,-8>>, <<8040,8047,1,-8>>, <<8072,8079,1,-8>>,
       <<8088,8095,1,-8>>, <<8104,8111,1,-8>>, <<8120,8121,1,-8>>, <<8122,8123,1,-74>>,
       <<8124,8124,1,-9>>, <<8136,8139,1,-86>>, <<8140,8140,1,-9>>, <<8152,8153,1,-8>>,
       <<8154,8155,1,-100>>, <<8168,8169,1,-8>>, <<8170,8171,1,-112>>, <<8172,8172,1,-7>>,
       <<8184,8185,1,-128>>, <<8186,8187,1,-126>>, <<8188,8188,1,-9>>, <<8486,8486,1,-7517>>,
       <<8490,8490,1,-8383>>, <<8491,8491,1,-8262>>, <<8498,8498,1,28>>, <<8544,8559,1,16>>,
       <<8579,8579,1,1>>, <<9398,9423,1,26>>, <<11264,11311,1,48>>, <<11360,11360,1,1>>,
       <<11362,11362,1,-10743>>, <<11363,11363,1,-3814>>, <<11364,11364,1,-10727>>, <<11367,11371,2,1>>,
       <<11373,11373,1,-10780>>, <<11374,11374,1,-10749>>, <<11375,11375,1,-10783>>, <<11376,11376,1,-10782>>,
       <<11378,11378,1,1>>, <<11381,11381,1,1>>, <<11390,11391,1,-10815>>, <<11392,11490,2,1>>,
       <<11499,11501,2,1>>, <<11506,11506,1,1>>, <<42560,42604,2,1>>, <<42624,42650,2,1>>,
       <<42786,42798,2,1>>, <<42802,42862,2,1>>, <<42873,42875,2,1>>, <<42877,42877,1,-35332>>,
       <<42878,42886,2,1>>, <<42891,42891,1,1>>, <<42893,42893,1,-42280>>, <<42896,42898,2,1>>,
       <<42902,42920,2,1>>, <<42922,42922,1,-42308>>, <<42923,42923,1,-42319>>, <<42924,42924,1,-42315>>,
       <<42925,42925,1,-42305>>, <<42926,42926,1,-42308>>, <<42928,42928,1,-42258>>, <<42929,42929,1,-42282>>,
       <<42930,42930,1,-42261>>, <<42931,42931,1,928>>, <<42932,42946,2,1>>, <<42948,42948,1,-48>>,
       <<42949,42949,1,-42307>>, <<42950,42950,1,-35384>>, <<42951,42953,2,1>>, <<42960,42960,1,1>>,
       <<42966,42968,2,1>>, <<42997,42997,1,1>>, <<65313,65338,1,32>>, <<66560,66599,1,40>>,
       <<66736,66771,1,40>>, <<66928,66964,2,39>>, <<66929,66937,2,39>>, <<66941,66953,2,39>>,
       <<66957,66961,2,39>>, <<66965,66965,1,39>>, <<68736,68786,1,64>>, <<71840,71871,1,32>>,
       <<93760,93791,1,32>>, <<125184,125217,1,34>> >>

\* the characters with the property Case_Ignorable, <<lo, hi>>
CaseIgnorableRanges ==
    << <<39,39>>, <<46,46>>, <<58,58>>, <<94,94>>, <<96,96>>,
       <<168,168>>, <<173,173>>, <<175,175>>, <<180,180>>, <<183,184>>,
       <<688,879>>, <<884,885>>, <<890,890>>, <<900,901>>, <<903,903>>,
       <<1155,1161>>, <<1369,1369>>, <<1375,1375>>, <<1425,1469>>, <<1471,1471>>,
       <<1473,1474>>, <<1476,1477>>, <<1479,1479>>, <<1524,1524>>, <<1536,1541>>,
       <<1552,1562>>, <<1564,1564>>, <<1600,1600>>, <<1611,1631>>, <<1648,1648>>,
       <<1750,1757>>, <<1759,1768>>, <<1770,1773>>, <<1807,1807>>, <<1809,1809>>,
       <<1840,1866>>, <<1958,1968>>, <<2027,2037>>, <<2042,2042>>, <<2045,2045>>,
       <<2070,2093>>, <<2137,2139>>, <<2184,2184>>, <<2192,2193>>, <<2200,2207>>,
       <<2249,2306>>, <<2362,2362>>, <<2364,2364>>, <<2369,2376>>, <<2381,2381>>,
       <<2385,2391>>, <<2402,2403>>, <<2417,2417>>, <<2433,2433>>, <<2492,2492>>,
       <<2497,2500>>, <<2509,2509>>, <<2530,2531>>, <<2558,2558>>, <<2561,2562>>,
       <<2620,2620>>, <<2625,2626>>, <<2631,2632>>, <<2635,2637>>, <<2641,2641>>,
       <<2672,2673>>, <<2677,2677>>, <<2689,2690>>, <<2748,2748>>, <<2753,2757>>,
       <<2759,2760>>, <<2765,2765>>, <<2786,2787>>, <<2810,2815>>, <<2817,2817>>,
       <<2876,2876>>, <<2879,2879>>, <<2881,2884>>, <<2893,2893>>, <<2901,2902>>,
       <<2914,2915>>, <<2946,2946>>, <<3008,3008>>, <<3021,3021>>, <<3072,3072>>,
       <<3076,3076>>, <<3132,3132>>, <<3134,3136>>, <<3142,3144>>, <<3146,3149>>,
       <<3157,3158>>, <<3170,3171>>, <<3201,3201>>, <<3260,3260>>, <<3263,3263>>,
       <<3270,3270>>, <<3276,3277>>, <<3298,3299>>, <<3328,3329>>, <<3387,3388>>,
       <<3393,3396>>, <<3405,3405>>, <<3426,3427>>, <<3457,3457>>, <<3530,3530>>,
       <<3538,3540>>, <<3542,3542>>, <<3633,3633>>, <<3636,3642>>, <<3654,3662>>,
       <<3761,3761>>, <<3764,3772>>, <<3782,3782>>, <<3784,3789>>, <<3864,3865>>,
       <<3893,3893>>, <<3895,3895>>, <<3897,3897>>, <<3953,3966>>, <<3968,3972>>,
       <<3974,3975>>, <<3981,3991>>, <<3993,4028>>, <<4038,4038>>, <<4141,4144>>,
       <<4146,4151>>, <<4153,4154>>, <<4157,4158>>, <<4184,4185>>, <<4190,4192>>,
       <<4209,4212>>, <<4226,4226>>, <<4229,4230>>, <<4237,4237>>, <<4253,4253>>,
       <<4348,4348>>, <<4957,4959>>, <<5906,5908>>, <<5938,5939>>, <<5970,5971>>,
       <<6002,6003>>, <<6068,6069>>, <<6071,6077>>, <<6086,6086>>, <<6089,6099>>,
       <<6103,6103>>, <<6109,6109>>, <<6155,6159>>, <<6211,6211>>, <<6277,6278>>,
       <<6313,6313>>, <<6432,6434>>, <<6439,6440>>, <<6450,6450>>, <<6457,6459>>,
       <<6679,6680>>, <<6683,6683>>, <<6742,6742>>, <<6744,6750>>, <<6752,6752>>,
       <<6754,6754>>, <<6757,6764>>, <<6771,6780>>, <<6783,6783>>, <<6823,6823>>,
       <<6832,6862>>, <<6912,6915>>, <<6964,6964>>, <<6966,6970>>, <<6972,6972>>,
       <<6978,6978>>, <<7019,7027>>, <<7040,7041>>, <<7074,7077>>, <<7080,7081>>,
       <<7083,7085>>, <<7142,7142>>, <<7144,7145>>, <<7149,7149>>, <<7151,7153>>,
       <<7212,7219>>, <<7222,7223>>, <<7288,7293>>, <<7376,7378>>, <<7380,7392>>,
       <<7394,7400>>, <<7405,7405>>, <<7412,7412>>, <<7416,7417>>, <<7468,7530>>,
       <<7544,7544>>, <<7579,7679>>, <<8125,8125>>, <<8127,8129>>, <<8141,8143>>,
       <<8157,8159>>, <<8173,8175>>, <<8189,8190>>, <<8203,8207>>, <<8216,8217>>,
       <<8228,8228>>, <<8231,8231>>, <<8234,8238>>, <<8288,8292>>, <<8294,8303>>,
       <<8305,8305>>, <<8319,8319>>, <<8336,8348>>, <<8400,8432>>, <<11388,11389>>,
       <<11503,11505>>, <<11631,11631>>, <<11647,11647>>, <<11744,11775>>, <<11823,11823>>,
       <<12293,12293>>, <<12330,12333>>, <<12337,12341>>, <<12347,12347>>, <<12441,12446>>,
       <<12540,12542>>, <<40981,40981>>, <<42232,42237>>, <<42508,42508>>, <<42607,42610>>,
       <<42612,42621>>, <<42623,42623>>, <<42652,42655>>, <<42736,42737>>, <<42752,42785>>,
       <<42864,42864>>, <<42888,42890>>, <<42994,42996>>, <<43000,43001>>, <<43010,43010>>,
       <<43014,43014>>, <<43019,43019>>, <<43045,43046>>, <<43052,43052>>, <<43204,43205>>,
       <<43232,43249>>, <<43263,43263>>, <<43302,43309>>, <<43335,43345>>, <<43392,43394>>,
       <<43443,43443>>, <<43446,43449>>, <<43452,43453>>, <<43471,43471>>, <<43493,43494>>,
       <<43561,43566>>, <<43569,43570>>, <<43573,43574>>, <<43587,43587>>, <<43596,43596>>,
       <<43632,43632>>, <<43644,43644>>, <<43696,43696>>, <<43698,43700>>, <<43703,43704>>,
       <<43710,43711>>, <<43713,43713>>, <<43741,43741>>, <<43756,43757>>, <<43763,43764>>,
       <<43766,43766>>, <<43867,43871>>, <<43881,43883>>, <<44005,44005>>, <<44008,44008>>,
       <<44013,44013>>, <<64286,64286>>, <<64434,64450>>, <<65024,65039>>, <<65043,65043>>,
       <<65056,65071>>, <<65106,65106>>, <<65109,65109>>, <<65279,65279>>, <<65287,65287>>,
       <<65294,65294>>, <<65306,65306>>, <<65342,65342>>, <<65344,65344>>, <<65392,65392>>,
       <<65438,65439>>, <<65507,65507>>, <<65529,65531>>, <<66045,66045>>, <<66272,66272>>,
       <<66422,66426>>, <<67456,67461>>, <<67463,67504>>, <<67506,67514>>, <<68097,68099>>,
       <<68101,68102>>, <<68108,68111>>, <<68152,68154>>, <<68159,68159>>, <<68325,68326>>,
       <<68900,68903>>, <<69291,69292>>, <<69446,69456>>, <<69506,69509>>, <<69633,69633>>,
       <<69688,69702>>, <<69744,69744>>, <<69747,69748>>, <<69759,69761>>, <<69811,69814>>,
       <<69817,69818>>, <<69821,69821>>, <<69826,69826>>, <<69837,69837>>, <<69888,69890>>,
       <<69927,69931>>, <<69933,69940>>, <<70003,70003>>, <<70016,70017>>, <<70070,70078>>,
       <<70089,70092>>, <<70095,70095>>, <<70191,70193>>, <<70196,70196>>, <<70198,70199>>,
       <<70206,70206>>, <<70367,70367>>, <<70371,70378>>, <<70400,70401>>, <<70459,70460>>,
       <<70464,70464>>, <<70502,70508>>, <<70512,70516>>, <<70712,70719>>, <<70722,70724>>,
       <<70726,70726>>, <<70750,70750>>, <<70835,70840>>, <<70842,70842>>, <<70847,70848>>,
       <<70850,70851>>, <<71090,71093>>, <<71100,71101>>, <<71103,71104>>, <<71132,71133>>,
       <<71219,71226>>, <<71229,71229>>, <<71231,71232>>, <<71339,71339>>, <<71341,71341>>,
       <<71344,71349>>, <<71351,71351>>, <<71453,71455>>, <<71458,71461>>, <<71463,71467>>,
       <<71727,71735>>, <<71737,71738>>, <<71995,71996>>, <<71998,71998>>, <<72003,72003>>,
       <<72148,72151>>, <<72154,72155>>, <<72160,72160>>, <<72193,72202>>, <<72243,72248>>,
       <<72251,72254>>, <<72263,72263>>, <<72273,72278>>, <<72281,72283>>, <<72330,72342>>,
       <<72344,72345>>, <<72752,72758>>, <<72760,72765>>, <<72767,72767>>, <<72850,72871>>,
       <<72874,72880>>, <<72882,72883>>, <<72885,72886>>, <<73009,73014>>, <<73018,73018>>,
       <<73020,73021>>, <<73023,73029>>, <<73031,73031>>, <<73104,73105>>, <<73109,73109>>,
       <<73111,73111>>, <<73459,73460>>, <<78896,78904>>, <<92912,92916>>, <<92976,92982>>,
       <<92992,92995>>, <<94031,94031>>, <<94095,94111>>, <<94176,94177>>, <<94179,94180>>,
       <<110576,110579>>, <<110581,110587>>, <<110589,110590>>, <<113821,113822>>, <<113824,113827>>,
       <<118528,118573>>, <<118576,118598>>, <<119143,119145>>, <<119155,119170>>, <<119173,119179>>,
       <<119210,119213>>, <<119362,119364>>, <<121344,121398>>, <<121403,121452>>, <<121461,121461>>,
       <<121476,121476>>, <<121499,121503>>, <<121505,121519>>, <<122880,122886>>, <<122888,122904>>,
       <<122907,122913>>, <<122915,122916>>, <<122918,122922>>, <<123184,123197>>, <<123566,123566>>,
       <<123628,123631>>, <<125136,125142>>, <<125252,125259>>, <<127995,127999>>, <<917505,917505>>,
       <<917536,917631>>, <<917760,917999>> >>

\* the characters with the property Cased that are not Case_Ignorable,
\* <<lo, hi>>
CasedRanges ==
    << <<65,90>>, <<97,122>>, <<170,170>>, <<181,181>>, <<186,186>>,
       <<192,214>>, <<216,246>>, <<248,442>>, <<444,447>>, <<452,659>>,
       <<661,687>>, <<880,883>>, <<886,887>>, <<891,893>>, <<895,895>>,
       <<902,902>>, <<904,906>>, <<908,908>>, <<910,929>>, <<931,1013>>,
       <<1015,1153>>, <<1162,1327>>, <<1329,1366>>, <<1376,1416>>, <<4256,4293>>,
       <<4295,4295>>, <<4301,4301>>, <<4304,4346>>, <<4349,4351>>, <<5024,5109>>,
       <<5112,5117>>, <<7296,7304>>, <<7312,7354>>, <<7357,7359>>, <<7424,7467>>,
       <<7531,7543>>, <<7545,7578>>, <<7680,7957>>, <<7960,7965>>, <<7968,8005>>,
       <<8008,8013>>, <<8016,8023>>, <<8025,8025>>, <<8027,8027>>, <<8029,8029>>,
       <<8031,8061>>, <<8064,8116>>, <<8118,8124>>, <<8126,8126>>, <<8130,8132>>,
       <<8134,8140>>, <<8144,8147>>, <<8150,8155>>, <<8160,8172>>, <<8178,8180>>,
       <<8182,8188>>, <<8450,8450>>, <<8455,8455>>, <<8458,8467>>, <<8469,8469>>,
       <<8473,8477>>, <<8484,8484>>, <<8486,8486>>, <<8488,8488>>, <<8490,8493>>,
       <<8495,8500>>, <<8505,8505>>, <<8508,8511>>, <<8517,8521>>, <<8526,8526>>,
       <<8544,8575>>, <<8579,8580>>, <<9398,9449>>, <<11264,11387>>, <<11390,11492>>,
       <<11499,11502>>, <<11506,11507>>, <<11520,11557>>, <<11559,11559>>, <<11565,11565>>,
       <<42560,42605>>, <<42624,42651>>, <<42786,42863>>, <<42865,42887>>, <<42891,42894>>,
       <<42896,42954>>, <<42960,42961>>, <<42963,42963>>, <<42965,42969>>, <<42997,42998>>,
       <<43002,43002>>, <<43824,43866>>, <<43872,43880>>, <<43888,43967>>, <<64256,64262>>,
       <<64275,64279>>, <<65313,65338>>, <<65345,65370>>, <<66560,66639>>, <<66736,66771>>,
       <<66776,66811>>, <<66928,66938>>, <<66940,66954>>, <<66956,66962>>, <<66964,66965>>,
       <<66967,66977>>, <<66979,66993>>, <<66995,67001>>, <<67003,67004>>, <<68736,68786>>,
       <<68800,68850>>, <<71840,71903>>, <<93760,93823>>, <<119808,119892>>, <<119894,119964>>,
       <<119966,119967>>, <<119970,119970>>, <<119973,119974>>, <<119977,119980>>, <<119982,119993>>,
       <<119995,119995>>, <<119997,120003>>, <<120005,120069>>, <<120071,120074>>, <<120077,120084>>,
       <<120086,120092>>, <<120094,120121>>, <<120123,120126>>, <<120128,120132>>, <<120134,120134>>,
       <<120138,120144>>, <<120146,120485>>, <<120488,120512>>, <<120514,120538>>, <<120540,120570>>,
       <<120572,120596>>, <<120598,120628>>, <<120630,120654>>, <<120656,120686>>, <<120688,120712>>,
       <<120714,120744>>, <<120746,120770>>, <<120772,120779>>, <<122624,122633>>, <<122635,122654>>,
       <<125184,125251>>, <<127280,127305>>, <<127312,127337>>, <<127344,127369>> >>

CaseIgnorable(cp) == InRanges(cp, CaseIgnorableRanges)
Cased(cp) == InRanges(cp, CasedRanges)

\* the lowercase of a character by the simple mappings
LowerChar(cp) ==
    IF cp < 128 THEN (IF cp >= 65 /\ cp <= 90 THEN cp + 32 ELSE cp)
    ELSE LET hits == {i \in 1..Len(LowerRuns) :
                        /\ LowerRuns[i][1] <= cp
                        /\ cp <= LowerRuns[i][2]
                        /\ (cp - LowerRuns[i][1]) % LowerRuns[i][3] = 0}
         IN  IF \E i \in hits : TRUE
             THEN cp + LowerRuns[CHOOSE i \in hits : TRUE][4]
             ELSE cp

\* the capital sigma at position i of s is final: the nearest character
\* before it that is not case-ignorable is cased, and the nearest one after
\* it is not
FinalSigma(s, i) ==
    LET before == {j \in 1..(i - 1) : ~CaseIgnorable(s[j])}
        after == {j \in (i + 1)..Len(s) : ~CaseIgnorable(s[j])}
    IN  /\ \E j \in before : TRUE
        /\ Cased(s[CHOOSE j \in before : \A k \in before : k <= j])
        /\ \/ ~\E j \in after : TRUE
           \/ ~Cased(s[CHOOSE j \in after : \A k \in after : j <= k])

\* the lowercase of the character at position i of s: one character, but two
\* for the capital I with dot
LowerAt(s, i) ==
    IF s[i] = 304 THEN <<105, 775>>
    ELSE IF s[i] = 931 THEN <<IF FinalSigma(s, i) THEN 962 ELSE 963>>
    ELSE <<LowerChar(s[i])>>

\* str.lower()
lower(s) == Flatten([i \in 1..Len(s) |-> LowerAt(s, i)])

WatchLit == Text(<<"y","o","u","t","u","b","e",".","c","o","m","/",
                   "w","a","t","c","h","?","v","=">>)
ShortLit == Text(<<"y","o","u","t","u",".","b","e","/">>)
EmbedLit == Text(<<"y","o","u","t","u","b","e",".","c","o","m","/",
                   "e","m","b","e","d","/">>)
LegacyLit == Text(<<"y","o","u","t","u","b","e",".","c","o","m","/","v","/">>)

\* characters that end the captured identifier: [^&\n?#]
StopChars == {Ord("&"), Ord("\n"), Ord("?"), Ord("#")}

API_KEY == Text(<<"A","A","Y","U","S","E","X","D","O","W","N","L","O","A","D","E","R">>)

---------------------------------------------------------------------------
(* URL validator, app.py lines 36-47.                                      *)

\* the literal lit occurs in s at position i
LitAt(lit, s, i) ==
    /\ i + Len(lit) - 1 <= Len(s)
    /\ SubSeq(s, i, i + Len(lit) - 1) = lit

\* ([^&\n?#]+) from position j: the longest run of non-stop characters
RECURSIVE CaptureFrom(_, _)
CaptureFrom(s, j) ==
    IF j > Len(s) \/ s[j] \in StopChars THEN <<>>
    ELSE <<s[j]>> \o CaptureFrom(s, j + 1)

\* the pattern (?:alt1|alt2|...)([^&\n?#]+) matches at position i with
\* alternative lit
AltMatchesAt(lit, s, i) ==
    /\ LitAt(lit, s, i)
    /\ CaptureFrom(s, i + Len(lit)) # <<>>

\* re.search(pattern, url): the leftmost position where an alternative
\* matches, the alternatives tried in order; group(1) of that match
NoMatch == [found |-> FALSE, group1 |-> <<>>]

re_search(alts, s) ==
    LET Pos == {i \in 1..Len(s) : \E a \in 1..Len(alts) : AltMatchesAt(alts[a], s, i)}
    IN  IF Pos = {} THEN NoMatch
        ELSE LET i == CHOOSE p \in Pos : \A q \in Pos : p <= q
                 a == CHOOSE k \in 1..Len(alts) :
                        /\ AltMatchesAt(alts[k], s, i)
                        /\ \A m \in 1..(k - 1) : ~AltMatchesAt(alts[m], s, i)
             IN  [found |-> TRUE, group1 |-> CaptureFrom(s, i + Len(alts[a]))]

patterns == << <<WatchLit, ShortLit, EmbedLit>>, <<LegacyLit>> >>

\* extract_video_id without the legacy /v/ pattern
extract_video_id_FirstPatternOnly(url) ==
    LET m1 == re_search(patterns[1], url)
    IN  IF m1.found THEN m1 ELSE NoMatch

\* the first pattern that matches wins; None when none does
extract_video_id(url) ==
    LET m1 == re_search(patterns[1], url)
        m2 == re_search(patterns[2], url)
    IN  IF m1.found THEN m1
        ELSE IF m2.found THEN m2
        ELSE NoMatch

---------------------------------------------------------------------------
(* The external extraction library.  A call either raises an exception    *)
(* with some text or returns a value, as a rule an info dict.             *)

Raised(text) == [raised |-> TRUE, text |-> text, info |-> NoneVal]
Returned(info) == [raised |-> FALSE, text |-> "", info |-> info]
\* the outcome of a call that has not returned yet
NoOutcome == [raised |-> FALSE, text |-> "", info |-> NoneVal]

\* one entry of the log of extractor calls: extract_info(url,
\* download=False) is entered with the option 'format'
Call(mode, url, format) ==
    [mode |-> mode, url |-> url, format |-> format,
     returned |-> FALSE, outcome |-> NoOutcome]

\* the call comes back with outcome
Return(call, outcome) ==
    [mode |-> call.mode, url |-> call.url, format |-> call.format,
     returned |-> TRUE, outcome |-> outcome]

\* the string literals of the handlers
Lit ==
    [best |-> Text(<<"b","e","s","t">>),
     bestaudio |-> Text(<<"b","e","s","t","a","u","d","i","o","/","b","e","s","t">>),
     heightsel |-> Text(<<"b","e","s","t","[","h","e","i","g","h","t","<","=">>),
     mp3 |-> Text(<<"m","p","3">>),
     mp4 |-> Text(<<"m","p","4">>),
     none |-> Text(<<"n","o","n","e">>),
     unknown |-> Text(<<"U","n","k","n","o","w","n">>),
     single |-> Text(<<"s","i","n","g","l","e">>),
     dots |-> Text(<<".",".",".">>)]

\* the keys the program reads in the info dict and in a format descriptor
Key ==
    [duration |-> Text(<<"d","u","r","a","t","i","o","n">>),
     formats |-> Text(<<"f","o","r","m","a","t","s">>),
     acodec |-> Text(<<"a","c","o","d","e","c">>),
     vcodec |-> Text(<<"v","c","o","d","e","c">>),
     height |-> Text(<<"h","e","i","g","h","t">>),
     width |-> Text(<<"w","i","d","t","h">>),
     abr |-> Text(<<"a","b","r">>),
     asr |-> Text(<<"a","s","r">>),
     fps |-> Text(<<"f","p","s">>),
     url |-> Text(<<"u","r","l">>),
     ext |-> Text(<<"e","x","t">>),
     format_id |-> Text(<<"f","o","r","m","a","t","_","i","d">>),
     format_note |-> Text(<<"f","o","r","m","a","t","_","n","o","t","e">>),
     filesize |-> Text(<<"f","i","l","e","s","i","z","e">>),
     id |-> Text(<<"i","d">>),
     title |-> Text(<<"t","i","t","l","e">>),
     uploader |-> Text(<<"u","p","l","o","a","d","e","r">>),
     view_count |-> Text(<<"v","i","e","w","_","c","o","u","n","t">>),
     like_count |-> Text(<<"l","i","k","e","_","c","o","u","n","t">>),
     description |-> Text(<<"d","e","s","c","r","i","p","t","i","o","n">>),
     thumbnail |-> Text(<<"t","h","u","m","b","n","a","i","l">>),
     upload_date |-> Text(<<"u","p","l","o","a","d","_","d","a","t","e">>),
     categories |-> Text(<<"c","a","t","e","g","o","r","i","e","s">>),
     tags |-> Text(<<"t","a","g","s">>),
     webpage_url |-> Text(<<"w","e","b","p","a","g","e","_","u","r","l">>)]

\* x.attr for an x that has no such attribute
AttributeErrorText(x, attr) ==
    "'" \o TypeName(x) \o "' object has no attribute '" \o attr \o "'"

---------------------------------------------------------------------------
(* str() and repr().                                                       *)

\* the printable characters above ASCII (str.isprintable), <<lo, hi>>
PrintableRanges ==
    << <<161,172>>, <<174,887>>, <<890,895>>, <<900,906>>, <<908,908>>,
       <<910,929>>, <<931,1327>>, <<1329,1366>>, <<1369,1418>>, <<1421,1423>>,
       <<1425,1479>>, <<1488,1514>>, <<1519,1524>>, <<1542,1563>>, <<1565,1756>>,
       <<1758,1805>>, <<1808,1866>>, <<1869,1969>>, <<1984,2042>>, <<2045,2093>>,
       <<2096,2110>>, <<2112,2139>>, <<2142,2142>>, <<2144,2154>>, <<2160,2190>>,
       <<2200,2273>>, <<2275,2435>>, <<2437,2444>>, <<2447,2448>>, <<2451,2472>>,
       <<2474,2480>>, <<2482,2482>>, <<2486,2489>>, <<2492,2500>>, <<2503,2504>>,
       <<2507,2510>>, <<2519,2519>>, <<2524,2525>>, <<2527,2531>>, <<2534,2558>>,
       <<2561,2563>>, <<2565,2570>>, <<2575,2576>>, <<2579,2600>>, <<2602,2608>>,
       <<2610,2611>>, <<2613,2614>>, <<2616,2617>>, <<2620,2620>>, <<2622,2626>>,
       <<2631,2632>>, <<2635,2637>>, <<2641,2641>>, <<2649,2652>>, <<2654,2654>>,
       <<2662,2678>>, <<2689,2691>>, <<2693,2701>>, <<2703,2705>>, <<2707,2728>>,
       <<2730,2736>>, <<2738,2739>>, <<2741,2745>>, <<2748,2757>>, <<2759,2761>>,
       <<2763,2765>>, <<2768,2768>>, <<2784,2787>>, <<2790,2801>>, <<2809,2815>>,
       <<2817,2819>>, <<2821,2828>>, <<2831,2832>>, <<2835,2856>>, <<2858,2864>>,
       <<2866,2867>>, <<2869,2873>>, <<2876,2884>>, <<2887,2888>>, <<2891,2893>>,
       <<2901,2903>>, <<2908,2909>>, <<2911,2915>>, <<2918,2935>>, <<2946,2947>>,
       <<2949,2954>>, <<2958,2960>>, <<2962,2965>>, <<2969,2970>>, <<2972,2972>>,
       <<2974,2975>>, <<2979,2980>>, <<2984,2986>>, <<2990,3001>>, <<3006,3010>>,
       <<3014,3016>>, <<3018,3021>>, <<3024,3024>>, <<3031,3031>>, <<3046,3066>>,
       <<3072,3084>>, <<3086,3088>>, <<3090,3112>>, <<3114,3129>>, <<3132,3140>>,
       <<3142,3144>>, <<3146,3149>>, <<3157,3158>>, <<3160,3162>>, <<3165,3165>>,
       <<3168,3171>>, <<3174,3183>>, <<3191,3212>>, <<3214,3216>>, <<3218,3240>>,
       <<3242,3251>>, <<3253,3257>>, <<3260,3268>>, <<3270,3272>>, <<3274,3277>>,
       <<3285,3286>>, <<3293,3294>>, <<3296,3299>>, <<3302,3311>>, <<3313,3314>>,
       <<3328,3340>>, <<3342,3344>>, <<3346,3396>>, <<3398,3400>>, <<3402,3407>>,
       <<3412,3427>>, <<3430,3455>>, <<3457,3459>>, <<3461,3478>>, <<3482,3505>>,
       <<3507,3515>>, <<3517,3517>>, <<3520,3526>>, <<3530,3530>>, <<3535,3540>>,
       <<3542,3542>>, <<3544,3551>>, <<3558,3567>>, <<3570,3572>>, <<3585,3642>>,
       <<3647,3675>>, <<3713,3714>>, <<3716,3716>>, <<3718,3722>>, <<3724,3747>>,
       <<3749,3749>>, <<3751,3773>>, <<3776,3780>>, <<3782,3782>>, <<3784,3789>>,
       <<3792,3801>>, <<3804,3807>>, <<3840,3911>>, <<3913,3948>>, <<3953,3991>>,
       <<3993,4028>>, <<4030,4044>>, <<4046,4058>>, <<4096,4293>>, <<4295,4295>>,
       <<4301,4301>>, <<4304,4680>>, <<4682,4685>>, <<4688,4694>>, <<4696,4696>>,
       <<4698,4701>>, <<4704,4744>>, <<4746,4749>>, <<4752,4784>>, <<4786,4789>>,
       <<4792,4798>>, <<4800,4800>>, <<4802,4805>>, <<4808,4822>>, <<4824,4880>>,
       <<4882,4885>>, <<4888,4954>>, <<4957,4988>>, <<4992,5017>>, <<5024,5109>>,
       <<5112,5117>>, <<5120,5759>>, <<5761,5788>>, <<5792,5880>>, <<5888,5909>>,
       <<5919,5942>>, <<5952,5971>>, <<5984,5996>>, <<5998,6000>>, <<6002,6003>>,
       <<6016,6109>>, <<6112,6121>>, <<6128,6137>>, <<6144,6157>>, <<6159,6169>>,
       <<6176,6264>>, <<6272,6314>>, <<6320,6389>>, <<6400,6430>>, <<6432,6443>>,
       <<6448,6459>>, <<6464,6464>>, <<6468,6509>>, <<6512,6516>>, <<6528,6571>>,
       <<6576,6601>>, <<6608,6618>>, <<6622,6683>>, <<6686,6750>>, <<6752,6780>>,
       <<6783,6793>>, <<6800,6809>>, <<6816,6829>>, <<6832,6862>>, <<6912,6988>>,
       <<6992,7038>>, <<7040,7155>>, <<7164,7223>>, <<7227,7241>>, <<7245,7304>>,
       <<7312,7354>>, <<7357,7367>>, <<7376,7418>>, <<7424,7957>>, <<7960,7965>>,
       <<7968,8005>>, <<8008,8013>>, <<8016,8023>>, <<8025,8025>>, <<8027,8027>>,
       <<8029,8029>>, <<8031,8061>>, <<8064,8116>>, <<8118,8132>>, <<8134,8147>>,
       <<8150,8155>>, <<8157,8175>>, <<8178,8180>>, <<8182,8190>>, <<8208,8231>>,
       <<8240,8286>>, <<8304,8305>>, <<8308,8334>>, <<8336,8348>>, <<8352,8384>>,
       <<8400,8432>>, <<8448,8587>>, <<8592,9254>>, <<9280,9290>>, <<9312,11123>>,
       <<11126,11157>>, <<11159,11507>>, <<11513,11557>>, <<11559,11559>>, <<11565,11565>>,
       <<11568,11623>>, <<11631,11632>>, <<11647,11670>>, <<11680,11686>>, <<11688,11694>>,
       <<11696,11702>>, <<11704,11710>>, <<11712,11718>>, <<11720,11726>>, <<11728,11734>>,
       <<11736,11742>>, <<11744,11869>>, <<11904,11929>>, <<11931,12019>>, <<12032,12245>>,
       <<12272,12283>>, <<12289,12351>>, <<12353,12438>>, <<12441,12543>>, <<12549,12591>>,
       <<12593,12686>>, <<12688,12771>>, <<12784,12830>>, <<12832,42124>>, <<42128,42182>>,
       <<42192,42539>>, <<42560,42743>>, <<42752,42954>>, <<42960,42961>>, <<42963,42963>>,
       <<42965,42969>>, <<42994,43052>>, <<43056,43065>>, <<43072,43127>>, <<43136,43205>>,
       <<43214,43225>>, <<43232,43347>>, <<43359,43388>>, <<43392,43469>>, <<43471,43481>>,
       <<43486,43518>>, <<43520,43574>>, <<43584,43597>>, <<43600,43609>>, <<43612,43714>>,
       <<43739,43766>>, <<43777,43782>>, <<43785,43790>>, <<43793,43798>>, <<43808,43814>>,
       <<43816,43822>>, <<43824,43883>>, <<43888,44013>>, <<44016,44025>>, <<44032,55203>>,
       <<55216,55238>>, <<55243,55291>>, <<63744,64109>>, <<64112,64217>>, <<64256,64262>>,
       <<64275,64279>>, <<64285,64310>>, <<64312,64316>>, <<64318,64318>>, <<64320,64321>>,
       <<64323,64324>>, <<64326,64450>>, <<64467,64911>>, <<64914,64967>>, <<64975,64975>>,
       <<65008,65049>>, <<65056,65106>>, <<65108,65126>>, <<65128,65131>>, <<65136,65140>>,
       <<65142,65276>>, <<65281,65470>>, <<65474,65479>>, <<65482,65487>>, <<65490,65495>>,
       <<65498,65500>>, <<65504,65510>>, <<65512,65518>>, <<65532,65533>>, <<65536,65547>>,
       <<65549,65574>>, <<65576,65594>>, <<65596,65597>>, <<65599,65613>>, <<65616,65629>>,
       <<65664,65786>>, <<65792,65794>>, <<65799,65843>>, <<65847,65934>>, <<65936,65948>>,
       <<65952,65952>>, <<66000,66045>>, <<66176,66204>>, <<66208,66256>>, <<66272,66299>>,
       <<66304,66339>>, <<66349,66378>>, <<66384,66426>>, <<66432,66461>>, <<66463,66499>>,
       <<66504,66517>>, <<66560,66717>>, <<66720,66729>>, <<66736,66771>>, <<66776,66811>>,
       <<66816,66855>>, <<66864,66915>>, <<66927,66938>>, <<66940,66954>>, <<66956,66962>>,
       <<66964,66965>>, <<66967,66977>>, <<66979,66993>>, <<66995,67001>>, <<67003,67004>>,
       <<67072,67382>>, <<67392,67413>>, <<67424,67431>>, <<67456,67461>>, <<67463,67504>>,
       <<67506,67514>>, <<67584,67589>>, <<67592,67592>>, <<67594,67637>>, <<67639,67640>>,
       <<67644,67644>>, <<67647,67669>>, <<67671,67742>>, <<67751,67759>>, <<67808,67826>>,
       <<67828,67829>>, <<67835,67867>>, <<67871,67897>>, <<67903,67903>>, <<67968,68023>>,
       <<68028,68047>>, <<68050,68099>>, <<68101,68102>>, <<68108,68115>>, <<68117,68119>>,
       <<68121,68149>>, <<68152,68154>>, <<68159,68168>>, <<68176,68184>>, <<68192,68255>>,
       <<68288,68326>>, <<68331,68342>>, <<68352,68405>>, <<68409,68437>>, <<68440,68466>>,
       <<68472,68497>>, <<68505,68508>>, <<68521,68527>>, <<68608,68680>>, <<68736,68786>>,
       <<68800,68850>>, <<68858,68903>>, <<68912,68921>>, <<69216,69246>>, <<69248,69289>>,
       <<69291,69293>>, <<69296,69297>>, <<69376,69415>>, <<69424,69465>>, <<69488,69513>>,
       <<69552,69579>>, <<69600,69622>>, <<69632,69709>>, <<69714,69749>>, <<69759,69820>>,
       <<69822,69826>>, <<69840,69864>>, <<69872,69881>>, <<69888,69940>>, <<69942,69959>>,
       <<69968,70006>>, <<70016,70111>>, <<70113,70132>>, <<70144,70161>>, <<70163,70206>>,
       <<70272,70278>>, <<70280,70280>>, <<70282,70285>>, <<70287,70301>>, <<70303,70313>>,
       <<70320,70378>>, <<70384,70393>>, <<70400,70403>>, <<70405,70412>>, <<70415,70416>>,
       <<70419,70440>>, <<70442,70448>>, <<70450,70451>>, <<70453,70457>>, <<70459,70468>>,
       <<70471,70472>>, <<70475,70477>>, <<70480,70480>>, <<70487,70487>>, <<70493,70499>>,
       <<70502,70508>>, <<70512,70516>>, <<70656,70747>>, <<70749,70753>>, <<70784,70855>>,
       <<70864,70873>>, <<71040,71093>>, <<71096,71133>>, <<71168,71236>>, <<71248,71257>>,
       <<71264,71276>>, <<71296,71353>>, <<71360,71369>>, <<71424,71450>>, <<71453,71467>>,
       <<71472,71494>>, <<71680,71739>>, <<71840,71922>>, <<71935,71942>>, <<71945,71945>>,
       <<71948,71955>>, <<71957,71958>>, <<71960,71989>>, <<71991,71992>>, <<71995,72006>>,
       <<72016,72025>>, <<72096,72103>>, <<72106,72151>>, <<72154,72164>>, <<72192,72263>>,
       <<72272,72354>>, <<72368,72440>>, <<72704,72712>>, <<72714,72758>>, <<72760,72773>>,
       <<72784,72812>>, <<72816,72847>>, <<72850,72871>>, <<72873,72886>>, <<72960,72966>>,
       <<72968,72969>>, <<72971,73014>>, <<73018,73018>>, <<73020,73021>>, <<73023,73031>>,
       <<73040,73049>>, <<73056,73061>>, <<73063,73064>>, <<73066,73102>>, <<73104,73105>>,
       <<73107,73112>>, <<73120,73129>>, <<73440,73464>>, <<73648,73648>>, <<73664,73713>>,
       <<73727,74649>>, <<74752,74862>>, <<74864,74868>>, <<74880,75075>>, <<77712,77810>>,
       <<77824,78894>>, <<82944,83526>>, <<92160,92728>>, <<92736,92766>>, <<92768,92777>>,
       <<92782,92862>>, <<92864,92873>>, <<92880,92909>>, <<92912,92917>>, <<92928,92997>>,
       <<93008,93017>>, <<93019,93025>>, <<93027,93047>>, <<93053,93071>>, <<93760,93850>>,
       <<93952,94026>>, <<94031,94087>>, <<94095,94111>>, <<94176,94180>>, <<94192,94193>>,
       <<94208,100343>>, <<100352,101589>>, <<101632,101640>>, <<110576,110579>>, <<110581,110587>>,
       <<110589,110590>>, <<110592,110882>>, <<110928,110930>>, <<110948,110951>>, <<110960,111355>>,
       <<113664,113770>>, <<113776,113788>>, <<113792,113800>>, <<113808,113817>>, <<113820,113823>>,
       <<118528,118573>>, <<118576,118598>>, <<118608,118723>>, <<118784,119029>>, <<119040,119078>>,
       <<119081,119154>>, <<119163,119274>>, <<119296,119365>>, <<119520,119539>>, <<119552,119638>>,
       <<119648,119672>>, <<119808,119892>>, <<119894,119964>>, <<119966,119967>>, <<119970,119970>>,
       <<119973,119974>>, <<119977,119980>>, <<119982,119993>>, <<119995,119995>>, <<119997,120003>>,
       <<120005,120069>>, <<120071,120074>>, <<120077,120084>>, <<120086,120092>>, <<120094,120121>>,
       <<120123,120126>>, <<120128,120132>>, <<120134,120134>>, <<120138,120144>>, <<120146,120485>>,
       <<120488,120779>>, <<120782,121483>>, <<121499,121503>>, <<121505,121519>>, <<122624,122654>>,
       <<122880,122886>>, <<122888,122904>>, <<122907,122913>>, <<122915,122916>>, <<122918,122922>>,
       <<123136,123180>>, <<123184,123197>>, <<123200,123209>>, <<123214,123215>>, <<123536,123566>>,
       <<123584,123641>>, <<123647,123647>>, <<124896,124902>>, <<124904,124907>>, <<124909,124910>>,
       <<124912,124926>>, <<124928,125124>>, <<125127,125142>>, <<125184,125259>>, <<125264,125273>>,
       <<125278,125279>>, <<126065,126132>>, <<126209,126269>>, <<126464,126467>>, <<126469,126495>>,
       <<126497,126498>>, <<126500,126500>>, <<126503,126503>>, <<126505,126514>>, <<126516,126519>>,
       <<126521,126521>>, <<126523,126523>>, <<126530,126530>>, <<126535,126535>>, <<126537,126537>>,
       <<126539,126539>>, <<126541,126543>>, <<126545,126546>>, <<126548,126548>>, <<126551,126551>>,
       <<126553,126553>>, <<126555,126555>>, <<126557,126557>>, <<126559,126559>>, <<126561,126562>>,
       <<126564,126564>>, <<126567,126570>>, <<126572,126578>>, <<126580,126583>>, <<126585,126588>>,
       <<126590,126590>>, <<126592,126601>>, <<126603,126619>>, <<126625,126627>>, <<126629,126633>>,
       <<126635,126651>>, <<126704,126705>>, <<126976,127019>>, <<127024,127123>>, <<127136,127150>>,
       <<127153,127167>>, <<127169,127183>>, <<127185,127221>>, <<127232,127405>>, <<127462,127490>>,
       <<127504,127547>>, <<127552,127560>>, <<127568,127569>>, <<127584,127589>>, <<127744,128727>>,
       <<128733,128748>>, <<128752,128764>>, <<128768,128883>>, <<128896,128984>>, <<128992,129003>>,
       <<129008,129008>>, <<129024,129035>>, <<129040,129095>>, <<129104,129113>>, <<129120,129159>>,
       <<129168,129197>>, <<129200,129201>>, <<129280,129619>>, <<129632,129645>>, <<129648,129652>>,
       <<129656,129660>>, <<129664,129670>>, <<129680,129708>>, <<129712,129722>>, <<129728,129733>>,
       <<129744,129753>>, <<129760,129767>>, <<129776,129782>>, <<129792,129938>>, <<129940,129994>>,
       <<130032,130041>>, <<131072,173791>>, <<173824,177976>>, <<177984,178205>>, <<178208,183969>>,
       <<183984,191456>>, <<194560,195101>>, <<196608,201546>>, <<917760,917999>> >>

RECURSIVE Decimal(_)
\* str(n) of an integer
Decimal(n) ==
    IF n < 0 THEN <<45>> \o Decimal(0 - n)
    ELSE IF n < 10 THEN <<48 + n>>
    ELSE Decimal(n \div 10) \o <<48 + (n % 10)>>

\* n in width hexadecimal digits, lowercase
RECURSIVE HexLower(_, _)
HexLower(n, width) ==
    IF width = 0 THEN <<>>
    ELSE HexLower(n \div 16, width - 1)
            \o <<IF n % 16 < 10 THEN 48 + (n % 16) ELSE 87 + (n % 16)>>

\* one character of the repr of a string written between quote characters
ReprChar(cp, quote) ==
    IF cp = quote \/ cp = 92 THEN <<92, cp>>
    ELSE IF cp = 9 THEN <<92, 116>>
    ELSE IF cp = 10 THEN <<92, 110>>
    ELSE IF cp = 13 THEN <<92, 114>>
    ELSE IF cp < 32 \/ cp = 127 THEN <<92, 120>> \o HexLower(cp, 2)
    ELSE IF cp < 127 THEN <<cp>>
    ELSE IF InRanges(cp, PrintableRanges) THEN <<cp>>
    ELSE IF cp <= 255 THEN <<92, 120>> \o HexLower(cp, 2)
    ELSE IF cp <= 65535 THEN <<92, 117>> \o HexLower(cp, 4)
    ELSE <<92, 85>> \o HexLower(cp, 8)

\* repr(s) of a string: in single quotes, or in double quotes when it has a
\* single quote and no double quote
StrRepr(s) ==
    LET quote == IF /\ \E i \in 1..Len(s) : s[i] = 39
                    /\ ~\E i \in 1..Len(s) : s[i] = 34
                 THEN 34 ELSE 39
    IN  <<quote>> \o Flatten([i \in 1..Len(s) |-> ReprChar(s[i], quote)])
            \o <<quote>>

\* ', '.join(parts)
RECURSIVE JoinComma(_)
JoinComma(parts) ==
    IF parts = <<>> THEN <<>>
    ELSE IF Len(parts) = 1 THEN parts[1]
    ELSE parts[1] \o <<44, 32>> \o JoinComma(Tail(parts))

\* repr(x)
RECURSIVE PyRepr(_)
PyRepr(x) ==
    CASE x.t = "none" -> Text(<<"N","o","n","e">>)
      [] x.t = "bool" -> IF x.b THEN Text(<<"T","r","u","e">>)
                         ELSE Text(<<"F","a","l","s","e">>)
      [] x.t = "int" -> Decimal(x.v)
      [] x.t = "str" -> StrRepr(x.s)
      [] x.t = "list" ->
            <<91>> \o JoinComma([i \in 1..Len(x.l) |-> PyRepr(x.l[i])]) \o <<93>>
      [] x.t = "dict" ->
            <<123>> \o JoinComma([i \in 1..Len(x.d) |->
                                    StrRepr(x.d[i][1]) \o <<58, 32>>
                                        \o PyRepr(x.d[i][2])])
                \o <<125>>

\* str(x), as an f-string prints x
PyStr(x) == IF x.t = "str" THEN x.s ELSE PyRepr(x)

---------------------------------------------------------------------------
(* list.sort(key=..., reverse=True) as the interpreter does it: the keys   *)
(* are computed first, the list is reversed, sorted ascending by a stable  *)
(* merge sort of natural runs, and reversed again.  Positions are counted  *)
(* from 0, as in the interpreter's source; an element of the list being    *)
(* sorted is a record of the key and the item.  Which keys are compared,   *)
(* and in which order, decides which TypeError a list of keys of several   *)
(* types raises.  The functions of the sort call one another by name      *)
(* through sort_call.                                                      *)

MIN_GALLOP == 7

\* the call f(x[1], ..., x[n]) of a function of the sort
RECURSIVE sort_call(_, _)

\* a sort or a part of it ended with an exception
SortFailed(text) == [err |-> text]

\* ISLT(x, y): the key of x is less than the key of y
ISLT(x, y) == PyLt(x.key, y.key)

\* count_run: the length of the run that starts at lo, and whether it is
\* strictly descending; the run goes on at position p while "a[p] < a[p-1]"
\* is descending
count_run(a, lo, hi) ==
    LET RECURSIVE run_from(_, _, _)
        run_from(p, n, descending) ==
            IF p >= hi THEN [err |-> "", n |-> n, descending |-> descending]
            ELSE LET k == sort_call("ISLT", <<a[p + 1], a[p]>>)
                 IN  IF k.error # "" THEN SortFailed(k.error)
                     ELSE IF k.value # descending
                          THEN [err |-> "", n |-> n, descending |-> descending]
                          ELSE run_from(p + 1, n + 1, descending)
    IN  IF lo + 1 = hi THEN [err |-> "", n |-> 1, descending |-> FALSE]
        ELSE LET first == sort_call("ISLT", <<a[lo + 2], a[lo + 1]>>)
             IN  IF first.error # "" THEN SortFailed(first.error)
                 ELSE run_from(lo + 2, 2, first.value)

\* a with the part from position lo, of the length of s, replaced by s
Replace(a, lo, s) ==
    [i \in 1..Len(a) |-> IF i > lo /\ i <= lo + Len(s) THEN s[i - lo] ELSE a[i]]

\* the part of a of n elements from position lo
Slice(a, lo, n) == SubSeq(a, lo + 1, lo + n)

\* binarysort: a[lo..start) is sorted; insert a[start..hi) one by one, each
\* where a binary search of the sorted part l..r puts it
binarysort(a, lo, hi, start) ==
    LET RECURSIVE search(_, _, _, _)
        search(b, pivot, l, r) ==
            LET p == l + ((r - l) \div 2)
                k == sort_call("ISLT", <<pivot, b[p + 1]>>)
            IN  IF k.error # "" THEN SortFailed(k.error)
                ELSE LET l2 == IF k.value THEN l ELSE p + 1
                         r2 == IF k.value THEN p ELSE r
                     IN  IF l2 < r2 THEN search(b, pivot, l2, r2)
                         ELSE [err |-> "", l |-> l2]
        RECURSIVE insert_from(_, _)
        insert_from(b, st) ==
            IF st >= hi THEN [err |-> "", a |-> b]
            ELSE LET pos == search(b, b[st + 1], lo, st)
                 IN  IF pos.err # "" THEN SortFailed(pos.err)
                     ELSE insert_from(
                              Replace(b, pos.l,
                                      <<b[st + 1]>> \o Slice(b, pos.l, st - pos.l)),
                              st + 1)
    IN  insert_from(a, IF lo = start THEN start + 1 ELSE start)

\* merge_compute_minrun
merge_compute_minrun(n) ==
    LET RECURSIVE halve(_, _)
        halve(m, r) ==
            IF m < 64 THEN m + r
            ELSE halve(m \div 2, IF m % 2 = 1 THEN 1 ELSE r)
    IN  halve(n, 0)

\* powerloop: the power of the boundary between the run of n1 elements at
\* s1 and the next run of n2 elements, in a list of n elements
powerloop(s1, n1, n2, n) ==
    LET RECURSIVE loop(_, _, _)
        loop(a, b, result) ==
            IF a >= n THEN loop(2 * (a - n), 2 * (b - n), result + 1)
            ELSE IF b >= n THEN result + 1
            ELSE loop(2 * a, 2 * b, result + 1)
    IN  loop(2 * s1 + n1, 2 * s1 + n1 + n1 + n2, 0)

\* gallop_left (left) and gallop_right (~left): the position in the sorted
\* run where key belongs, before (left) or after (~left) the elements equal
\* to it, searched from position hint
gallop(left, key, run, hint) ==
    LET \* the comparison of gallop_left, "x < key", or of gallop_right,
        \* "key < x"
        probe(x) == sort_call("ISLT", IF left THEN <<x, key>> ELSE <<key, x>>)
        \* the first loop: from hint in direction sign, at offsets 1, 3, 7,
        \* ... while the comparison gives want
        RECURSIVE scan_from(_, _, _, _, _)
        scan_from(sign, want, limit, lastofs, ofs) ==
            IF ofs >= limit THEN [err |-> "", lastofs |-> lastofs, ofs |-> ofs]
            ELSE LET k == probe(run[hint + sign * ofs + 1])
                 IN  IF k.error # "" THEN SortFailed(k.error)
                     ELSE IF k.value # want
                          THEN [err |-> "", lastofs |-> lastofs, ofs |-> ofs]
                          ELSE scan_from(sign, want, limit, ofs, 2 * ofs + 1)
        \* the last loop: binary search between lastofs and ofs
        RECURSIVE bisect(_, _)
        bisect(lastofs, ofs) ==
            IF lastofs >= ofs THEN [err |-> "", k |-> ofs]
            ELSE LET m == lastofs + ((ofs - lastofs) \div 2)
                     k == probe(run[m + 1])
                 IN  IF k.error # "" THEN SortFailed(k.error)
                     ELSE IF k.value = left THEN bisect(m + 1, ofs)
                          ELSE bisect(lastofs, m)
        n == Len(run)
        at == probe(run[hint + 1])
    IN  IF at.error # "" THEN SortFailed(at.error)
        ELSE LET rightwards == (at.value = left)
                 maxofs == IF rightwards THEN n - hint ELSE hint + 1
                 scan == scan_from(IF rightwards THEN 1 ELSE 0 - 1,
                                   at.value, maxofs, 0, 1)
             IN  IF scan.err # "" THEN SortFailed(scan.err)
                 ELSE LET reached == IF scan.ofs > maxofs THEN maxofs ELSE scan.ofs
                          from == IF rightwards THEN scan.lastofs + hint
                                  ELSE hint - reached
                          to == IF rightwards THEN reached + hint
                                ELSE hint - scan.lastofs
                      IN  bisect(from + 1, to)

\* two runs merged into run; min_gallop as the merge leaves it
Merged(run, min_gallop) == [err |-> "", run |-> run, min_gallop |-> min_gallop]

\* merge_lo: merge the adjacent runs A and B, Len(A) <= Len(B), from the
\* left; the first element of B is known to go first
merge_lo(A, B, min_gallop) ==
    LET RECURSIVE pairs(_, _, _, _, _, _)
        RECURSIVE galloping(_, _, _, _)
        \* one pair at a time: out is merged, ra and rb are what is left of
        \* the two runs; acount and bcount count how often in a row ra, or
        \* rb, won
        pairs(out, ra, rb, mg, acount, bcount) ==
            LET k == sort_call("ISLT", <<rb[1], ra[1]>>)
            IN  IF k.error # "" THEN SortFailed(k.error)
                ELSE IF k.value
                THEN LET out2 == Append(out, rb[1])
                         rb2 == Tail(rb)
                     IN  IF rb2 = <<>> THEN Merged(out2 \o ra, mg)
                         ELSE IF bcount + 1 >= mg
                         THEN galloping(out2, ra, rb2, mg + 1)
                         ELSE pairs(out2, ra, rb2, mg, 0, bcount + 1)
                ELSE LET out2 == Append(out, ra[1])
                         ra2 == Tail(ra)
                     IN  IF Len(ra2) = 1 THEN Merged(out2 \o rb \o ra2, mg)
                         ELSE IF acount + 1 >= mg
                         THEN galloping(out2, ra2, rb, mg + 1)
                         ELSE pairs(out2, ra2, rb, mg, acount + 1, 0)
        \* galloping: one turn of the do-while loop
        galloping(out, ra, rb, entered) ==
            LET mg == IF entered > 1 THEN entered - 1 ELSE entered
                ga == sort_call("gallop_right", <<rb[1], ra, 0>>)
            IN  IF ga.err # "" THEN SortFailed(ga.err)
                ELSE
                LET out1 == out \o SubSeq(ra, 1, ga.k)
                    ra1 == SubSeq(ra, ga.k + 1, Len(ra))
                IN  IF ga.k > 0 /\ Len(ra1) = 1 THEN Merged(out1 \o rb \o ra1, mg)
                    ELSE IF ga.k > 0 /\ ra1 = <<>> THEN Merged(out1 \o rb, mg)
                    ELSE
                    LET out2 == Append(out1, rb[1])
                        rb2 == Tail(rb)
                    IN  IF rb2 = <<>> THEN Merged(out2 \o ra1, mg)
                        ELSE
                        LET gb == sort_call("gallop_left", <<ra1[1], rb2, 0>>)
                        IN  IF gb.err # "" THEN SortFailed(gb.err)
                            ELSE
                            LET out3 == out2 \o SubSeq(rb2, 1, gb.k)
                                rb3 == SubSeq(rb2, gb.k + 1, Len(rb2))
                            IN  IF gb.k > 0 /\ rb3 = <<>>
                                THEN Merged(out3 \o ra1, mg)
                                ELSE
                                LET out4 == Append(out3, ra1[1])
                                    ra4 == Tail(ra1)
                                IN  IF Len(ra4) = 1
                                    THEN Merged(out4 \o rb3 \o ra4, mg)
                                    ELSE IF ga.k >= MIN_GALLOP \/ gb.k >= MIN_GALLOP
                                    THEN galloping(out4, ra4, rb3, mg)
                                    ELSE pairs(out4, ra4, rb3, mg + 1, 0, 0)
    IN  IF Len(B) = 1 THEN Merged(B \o A, min_gallop)
        ELSE IF Len(A) = 1 THEN Merged(B \o A, min_gallop)
        ELSE pairs(<<B[1]>>, A, Tail(B), min_gallop, 0, 0)

Front(s) == SubSeq(s, 1, Len(s) - 1)
Last(s) == s[Len(s)]

\* merge_hi: merge the adjacent runs A and B, Len(A) > Len(B), from the
\* right; the last element of A is known to go last
merge_hi(A, B, min_gallop) ==
    LET RECURSIVE pairs(_, _, _, _, _, _)
        RECURSIVE galloping(_, _, _, _)
        \* one pair at a time: out is the merged end, ra and rb are what is
        \* left of the two runs
        pairs(ra, rb, out, mg, acount, bcount) ==
            LET k == sort_call("ISLT", <<Last(rb), Last(ra)>>)
            IN  IF k.error # "" THEN SortFailed(k.error)
                ELSE IF k.value
                THEN LET out2 == <<Last(ra)>> \o out
                         ra2 == Front(ra)
                     IN  IF ra2 = <<>> THEN Merged(rb \o out2, mg)
                         ELSE IF acount + 1 >= mg
                         THEN galloping(ra2, rb, out2, mg + 1)
                         ELSE pairs(ra2, rb, out2, mg, acount + 1, 0)
                ELSE LET out2 == <<Last(rb)>> \o out
                         rb2 == Front(rb)
                     IN  IF Len(rb2) = 1 THEN Merged(rb2 \o ra \o out2, mg)
                         ELSE IF bcount + 1 >= mg
                         THEN galloping(ra, rb2, out2, mg + 1)
                         ELSE pairs(ra, rb2, out2, mg, 0, bcount + 1)
        \* galloping: one turn of the do-while loop
        galloping(ra, rb, out, entered) ==
            LET mg == IF entered > 1 THEN entered - 1 ELSE entered
                ga == sort_call("gallop_right", <<Last(rb), ra, Len(ra) - 1>>)
            IN  IF ga.err # "" THEN SortFailed(ga.err)
                ELSE
                LET acount == Len(ra) - ga.k
                    out1 == SubSeq(ra, ga.k + 1, Len(ra)) \o out
                    ra1 == SubSeq(ra, 1, ga.k)
                IN  IF acount > 0 /\ ra1 = <<>> THEN Merged(rb \o out1, mg)
                    ELSE
                    LET out2 == <<Last(rb)>> \o out1
                        rb2 == Front(rb)
                    IN  IF Len(rb2) = 1 THEN Merged(rb2 \o ra1 \o out2, mg)
                        ELSE
                        LET gb == sort_call("gallop_left",
                                            <<Last(ra1), rb2, Len(rb2) - 1>>)
                        IN  IF gb.err # "" THEN SortFailed(gb.err)
                            ELSE
                            LET bcount == Len(rb2) - gb.k
                                out3 == SubSeq(rb2, gb.k + 1, Len(rb2)) \o out2
                                rb3 == SubSeq(rb2, 1, gb.k)
                            IN  IF bcount > 0 /\ Len(rb3) = 1
                                THEN Merged(rb3 \o ra1 \o out3, mg)
                                ELSE IF bcount > 0 /\ rb3 = <<>>
                                THEN Merged(ra1 \o out3, mg)
                                ELSE
                                LET out4 == <<Last(ra1)>> \o out3
                                    ra4 == Front(ra1)
                                IN  IF ra4 = <<>> THEN Merged(rb3 \o out4, mg)
                                    ELSE IF acount >= MIN_GALLOP \/ bcount >= MIN_GALLOP
                                    THEN galloping(ra4, rb3, out4, mg)
                                    ELSE pairs(ra4, rb3, out4, mg + 1, 0, 0)
    IN  IF Len(A) = 1 THEN Merged(B \o A, min_gallop)
        ELSE IF Len(B) = 1 THEN Merged(B \o A, min_gallop)
        ELSE pairs(Front(A), B, <<Last(A)>>, min_gallop, 0, 0)

\* the state of a sort: the list, the stack of the runs that wait to be
\* merged (base, len, power), min_gallop
MergeState(a, pending, min_gallop) ==
    [err |-> "", a |-> a, pending |-> pending, min_gallop |-> min_gallop]

PendingRun(base, len, power) == [base |-> base, len |-> len, power |-> power]

\* merge_at: merge the runs at stack positions i and i+1 (from 0)
merge_at(ms, i) ==
    LET p == ms.pending
        ssa == p[i + 1].base
        na == p[i + 1].len
        ssb == p[i + 2].base
        nb == p[i + 2].len
        pending == [j \in 1..(Len(p) - 1) |->
                       IF j = i + 1 THEN PendingRun(ssa, na + nb, p[i + 1].power)
                       ELSE IF j > i + 1 THEN p[j + 1]
                       ELSE p[j]]
        A == Slice(ms.a, ssa, na)
        B == Slice(ms.a, ssb, nb)
        \* where does B start in A?  The elements of A before that are in
        \* place
        k == sort_call("gallop_right", <<B[1], A, 0>>)
    IN  IF k.err # "" THEN SortFailed(k.err)
        ELSE IF na - k.k = 0 THEN MergeState(ms.a, pending, ms.min_gallop)
        ELSE
        LET A1 == SubSeq(A, k.k + 1, na)
            \* where does A end in B?  The elements of B after that are in
            \* place
            nb1 == sort_call("gallop_left", <<Last(A1), B, nb - 1>>)
        IN  IF nb1.err # "" THEN SortFailed(nb1.err)
            ELSE IF nb1.k <= 0 THEN MergeState(ms.a, pending, ms.min_gallop)
            ELSE
            LET B1 == SubSeq(B, 1, nb1.k)
                merged == IF Len(A1) <= Len(B1)
                          THEN sort_call("merge_lo", <<A1, B1, ms.min_gallop>>)
                          ELSE sort_call("merge_hi", <<A1, B1, ms.min_gallop>>)
            IN  IF merged.err # "" THEN SortFailed(merged.err)
                ELSE MergeState(Replace(ms.a, ssa + k.k, merged.run),
                                pending, merged.min_gallop)

\* found_new_run: a run of n2 elements was found after the runs on the
\* stack; merge the runs on the stack whose power is above the power of the
\* boundary before it
found_new_run(ms, n2) ==
    LET RECURSIVE collapse(_, _)
        collapse(st, power) ==
            IF st.err # "" THEN st
            ELSE LET n == Len(st.pending)
                 IN  IF n > 1 /\ st.pending[n - 1].power > power
                     THEN collapse(sort_call("merge_at", <<st, n - 2>>), power)
                     ELSE MergeState(st.a,
                             [st.pending EXCEPT
                                 ![n] = PendingRun(@.base, @.len, power)],
                             st.min_gallop)
        top == Len(ms.pending)
    IN  IF top = 0 THEN ms
        ELSE collapse(ms, powerloop(ms.pending[top].base, ms.pending[top].len,
                                    n2, Len(ms.a)))

\* merge_force_collapse: merge all the runs on the stack
merge_force_collapse(ms) ==
    IF ms.err # "" THEN ms
    ELSE LET p == ms.pending
             n == Len(p) - 2
         IN  IF Len(p) <= 1 THEN ms
             ELSE sort_call("merge_force_collapse",
                      <<sort_call("merge_at",
                           <<ms, IF n > 0 /\ p[n].len < p[n + 2].len
                                 THEN n - 1 ELSE n>>)>>)

\* the main loop of list.sort: find the next run from lo, lengthen it to
\* minrun elements by binarysort, push it
listsort_runs(ms, lo, minrun) ==
    LET hi == Len(ms.a)
        nremaining == hi - lo
    IN  IF nremaining = 0 THEN ms
        ELSE
        LET run == sort_call("count_run", <<ms.a, lo, hi>>)
        IN  IF run.err # "" THEN SortFailed(run.err)
            ELSE
            LET a1 == IF run.descending
                      THEN Replace(ms.a, lo, Reverse(Slice(ms.a, lo, run.n)))
                      ELSE ms.a
                force == IF nremaining <= minrun THEN nremaining ELSE minrun
                sorted == IF run.n < minrun
                          THEN sort_call("binarysort",
                                         <<a1, lo, lo + force, lo + run.n>>)
                          ELSE [err |-> "", a |-> a1]
                n == IF run.n < minrun THEN force ELSE run.n
            IN  IF sorted.err # "" THEN SortFailed(sorted.err)
                ELSE
                LET found == sort_call("found_new_run",
                                 <<MergeState(sorted.a, ms.pending, ms.min_gallop),
                                   n>>)
                IN  IF found.err # "" THEN found
                    ELSE sort_call("listsort_runs",
                             <<MergeState(found.a,
                                          Append(found.pending,
                                                 PendingRun(lo, n, 0)),
                                          found.min_gallop),
                               lo + n, minrun>>)

\* a.sort(reverse=reverse) of a list a of keyed items: the sorted list, or
\* the text of the exception a comparison raised
list_sort_impl(a, reverse) ==
    IF Len(a) < 2 THEN Value(a)
    ELSE LET turned == IF reverse THEN Reverse(a) ELSE a
             runs == sort_call("listsort_runs",
                         <<MergeState(turned, <<>>, MIN_GALLOP), 0,
                           merge_compute_minrun(Len(a))>>)
             done == sort_call("merge_force_collapse", <<runs>>)
         IN  IF done.err # "" THEN Raises(done.err)
             ELSE Value(IF reverse THEN Reverse(done.a) ELSE done.a)

sort_call(f, x) ==
    CASE f = "ISLT" -> ISLT(x[1], x[2])
      [] f = "count_run" -> count_run(x[1], x[2], x[3])
      [] f = "binarysort" -> binarysort(x[1], x[2], x[3], x[4])
      [] f = "gallop_left" -> gallop(TRUE, x[1], x[2], x[3])
      [] f = "gallop_right" -> gallop(FALSE, x[1], x[2], x[3])
      [] f = "merge_lo" -> merge_lo(x[1], x[2], x[3])
      [] f = "merge_hi" -> merge_hi(x[1], x[2], x[3])
      [] f = "merge_at" -> merge_at(x[1], x[2])
      [] f = "found_new_run" -> found_new_run(x[1], x[2])
      [] f = "merge_force_collapse" -> merge_force_collapse(x[1])
      [] f = "listsort_runs" -> listsort_runs(x[1], x[2], x[3])
      [] f = "list_sort_impl" -> list_sort_impl(x[1], x[2])

\* a.sort(reverse=reverse)
listsort(a, reverse) == sort_call("list_sort_impl", <<a, reverse>>)
---------------------------------------------------------------------------
(* Extractor adapter, probe mode, app.py lines 49-69.                      *)

NoError == [isnone |-> TRUE, text |-> ""]
ErrorText(t) == [isnone |-> FALSE, text |-> t]
\* "if error:" is true for a non-empty string only
Truthy(e) == ~e.isnone /\ e.text # ""

\* line 65, for the number duration
TooLongMessage(duration) ==
    "Video too long (" \o ToString(IntOf(duration)) \o "s). Maximum allowed: "
        \o ToString(MAX_DURATION) \o "s"

\* lines 61-69 rejecting a duration equal to the ceiling
get_video_info_AtCeiling(outcome) ==
    IF outcome.raised
    THEN [info |-> NoneVal, error |-> ErrorText(outcome.text)]
    ELSE IF ~IsDict(outcome.info)
    THEN [info |-> NoneVal,
          error |-> ErrorText(AttributeErrorText(outcome.info, "get"))]
    ELSE LET duration == Get(outcome.info, Key.duration, Num(0))
             over == PyGtInt(duration, MAX_DURATION - 1)
         IN  IF over.error # ""
             THEN [info |-> NoneVal, error |-> ErrorText(over.error)]
             ELSE IF over.value
             THEN [info |-> NoneVal, error |-> ErrorText(TooLongMessage(duration))]
             ELSE [info |-> outcome.info, error |-> NoError]

\* lines 61-69: the pair (info, error) returned once extract_info came
\* back with outcome.  Whatever is raised, by the call, by info.get on a
\* value that is not a dict or by the comparison of a duration that is not
\* a number, is caught at line 68 and its text is the error.
get_video_info(outcome) ==
    IF outcome.raised
    THEN [info |-> NoneVal, error |-> ErrorText(outcome.text)]
    ELSE IF ~IsDict(outcome.info)
    THEN [info |-> NoneVal,
          error |-> ErrorText(AttributeErrorText(outcome.info, "get"))]
    ELSE LET duration == Get(outcome.info, Key.duration, Num(0))
             over == PyGtInt(duration, MAX_DURATION)
         IN  IF over.error # ""
             THEN [info |-> NoneVal, error |-> ErrorText(over.error)]
             ELSE IF over.value
             THEN [info |-> NoneVal, error |-> ErrorText(TooLongMessage(duration))]
             ELSE [info |-> outcome.info, error |-> NoError]

---------------------------------------------------------------------------
(* Format selector, app.py lines 159-211.                                  *)

\* for fmt in x: the items x yields, or the TypeError
Iterate(x) ==
    CASE x.t = "list" -> Value(x.l)
      [] x.t = "str" -> Value([i \in 1..Len(x.s) |-> Str(<<x.s[i]>>)])
      [] x.t = "dict" -> Value([i \in 1..Len(x.d) |-> Str(x.d[i][1])])
      [] OTHER -> Raises("'" \o TypeName(x) \o "' object is not iterable")

\* lines 165-170: the descriptor is of the requested kind
KeepFormat(fmt, format_type) ==
    IF format_type = Lit.mp3
    THEN /\ ~PyEq(Get(fmt, Key.acodec, NoneVal), Str(Lit.none))
         /\ PyEq(Get(fmt, Key.vcodec, NoneVal), Str(Lit.none))
    ELSE ~PyEq(Get(fmt, Key.vcodec, NoneVal), Str(Lit.none))

\* lines 163-170: keep the descriptors of the requested kind; fmt.get
\* raises AttributeError at the first item that is not a dict
filtered_formats(formats, format_type) ==
    LET items == Iterate(formats)
    IN  IF items.error # "" THEN items
        ELSE LET strangers == {i \in 1..Len(items.value) : ~IsDict(items.value[i])}
             IN  IF \E i \in strangers : TRUE
                 THEN Raises(AttributeErrorText(
                         items.value[CHOOSE i \in strangers :
                                        \A j \in strangers : i <= j],
                         "get"))
                 ELSE Value(SelectSeq(items.value,
                                      LAMBDA fmt : KeepFormat(fmt, format_type)))

\* lines 173-176: the sort key
SortKey(fmt, format_type) ==
    IF format_type # Lit.mp3 THEN Get(fmt, Key.height, Num(0))
    ELSE Get(fmt, Key.abr, Num(0))

\* lines 173-176: fs.sort(key=..., reverse=True)
sorted_formats(fs, format_type) ==
    LET items(sorted) ==
            IF sorted.error # "" THEN sorted
            ELSE Value([i \in 1..Len(fs) |-> sorted.value[i].item])
    IN  items(listsort([i \in 1..Len(fs) |->
                          [key |-> SortKey(fs[i], format_type), item |-> fs[i]]],
                       TRUE))

\* fmt.get('url') is truthy
HasUrl(fmt) == IsTrue(Get(fmt, Key.url, NoneVal))

\* lines 181-200
link_info(fmt, format_type) ==
    LET common == [format_id |-> Get(fmt, Key.format_id, NoneVal),
                   url |-> Get(fmt, Key.url, NoneVal),
                   ext |-> Get(fmt, Key.ext, NoneVal),
                   quality |-> Get(fmt, Key.format_note, Str(Lit.unknown)),
                   filesize |-> Get(fmt, Key.filesize, NoneVal)]
    IN  IF format_type # Lit.mp3
        THEN common @@
             [resolution |-> Str(PyStr(Get(fmt, Key.width, Str(Lit.unknown)))
                                   \o <<Ord("x")>>
                                   \o PyStr(Get(fmt, Key.height, Str(Lit.unknown)))),
              fps |-> Get(fmt, Key.fps, NoneVal),
              vcodec |-> Get(fmt, Key.vcodec, NoneVal),
              acodec |-> Get(fmt, Key.acodec, NoneVal)]
        ELSE common @@
             [bitrate |-> Get(fmt, Key.abr, NoneVal),
              sample_rate |-> Get(fmt, Key.asr, NoneVal)]

\* lines 160-202: the links made from the value of info['formats']
ranked_links(formats, format_type) ==
    LET kept == filtered_formats(formats, format_type)
    IN  IF kept.error # "" THEN kept
        ELSE LET sorted == sorted_formats(kept.value, format_type)
             IN  IF sorted.error # "" THEN sorted
                 ELSE LET top == SelectSeq(FirstN(sorted.value, TopN), HasUrl)
                      IN  Value([i \in 1..Len(top) |->
                                    link_info(top[i], format_type)])

\* lines 205-211
single_link(info, format_type, quality) ==
    << [format_id |-> Str(Lit.single), url |-> Get(info, Key.url, Str(<<>>)),
        ext |-> Str(format_type), quality |-> Str(quality)] >>

\* lines 159-211: download_links for the value info the resolve-mode call
\* returned, or the text of the exception
download_links(info, format_type, quality) ==
    CASE info.t = "dict" ->
            IF HasKey(info, Key.formats)
            THEN ranked_links(Get(info, Key.formats, NoneVal), format_type)
            ELSE Value(single_link(info, format_type, quality))
      [] info.t = "str" ->
            \* 'formats' in info is true of a string that contains it
            IF \E i \in 1..Len(info.s) : LitAt(Key.formats, info.s, i)
            THEN Raises("string indices must be integers, not 'str'")
            ELSE Raises(AttributeErrorText(info, "get"))
      [] info.t = "list" ->
            IF \E i \in 1..Len(info.l) : PyEq(info.l[i], Str(Key.formats))
            THEN Raises("list indices must be integers or slices, not str")
            ELSE Raises(AttributeErrorText(info, "get"))
      [] OTHER ->
            Raises("argument of type '" \o TypeName(info) \o "' is not iterable")

---------------------------------------------------------------------------
(* HTTP surface.                                                           *)

\* the routes of the application
Path ==
    [home |-> "/", download |-> "/api/youtube-downloader",
     info |-> "/api/video-info", health |-> "/health"]
ProtectedRoutes == {Path.download, Path.info}
KnownRoutes == {Path.home, Path.download, Path.info, Path.health}

Response(code, body) == [code |-> code, body |-> body]
Failed(code, error) == Response(code, [error |-> error, status |-> "failed"])
NoResponse == Response(0, <<>>)

\* where a handler stands after one of its segments: it returned resp, or
\* it waits in phase ph for its last extractor call
Finished(resp, cs) == [phase |-> "responded", response |-> resp, calls |-> cs]
Waiting(ph, cs) == [phase |-> ph, response |-> NoResponse, calls |-> cs]

\* request.args.get(name, default)
ArgOr(p, default) == IF p.given THEN p.val ELSE default

QualityTiers ==
    { Text(<<"1","4","4","p">>), Text(<<"2","4","0","p">>),
      Text(<<"3","6","0","p">>), Text(<<"4","8","0","p">>),
      Text(<<"7","2","0","p">>), Text(<<"1","0","8","0","p">>) }

\* lines 129-152: the 'format' option of the resolve-mode call
format_selector(format_type, quality) ==
    IF format_type = Lit.mp3 THEN Lit.bestaudio
    ELSE IF quality = Lit.best THEN Lit.best
    ELSE IF quality \in QualityTiers
         THEN Lit.heightsel \o SubSeq(quality, 1, Len(quality) - 1) \o <<Ord("]")>>
         ELSE Lit.best

NotSubscriptable(x) == "'" \o TypeName(x) \o "' object is not subscriptable"

\* x[:n] + '...' for a value x that is not falsy; error is the text of the
\* TypeError when the expression raises
slice_plus_dots(x, n) ==
    CASE x.t = "str" -> Value(Str(FirstN(x.s, n) \o Lit.dots))
      [] x.t = "list" -> Raises("can only concatenate list (not \"str\") to list")
      [] x.t = "dict" -> Raises("unhashable type: 'slice'")
      [] OTHER -> Raises(NotSubscriptable(x))

\* x[:n]
slice(x, n) ==
    CASE x.t = "str" -> Value(Str(FirstN(x.s, n)))
      [] x.t = "list" -> Value(List(FirstN(x.l, n)))
      [] x.t = "dict" -> Raises("unhashable type: 'slice'")
      [] OTHER -> Raises(NotSubscriptable(x))

\* lines 213-237: the response built from the resolved info and the links
download_success(info, links, format_type, quality) ==
    LET given == Get(info, Key.description, Str(<<>>))
        description == IF IsTrue(given)
                       THEN slice_plus_dots(given, DescriptionLimit)
                       ELSE Value(Str(<<>>))
    IN  IF description.error # ""
        THEN Failed(500, "Failed to process video: " \o description.error)
        ELSE Response(200,
                [status |-> "success",
                 video_info |-> [id |-> Get(info, Key.id, NoneVal),
                                 title |-> Get(info, Key.title, NoneVal),
                                 uploader |-> Get(info, Key.uploader, NoneVal),
                                 duration |-> Get(info, Key.duration, NoneVal),
                                 view_count |-> Get(info, Key.view_count, NoneVal),
                                 description |-> description.value,
                                 thumbnail |-> Get(info, Key.thumbnail, NoneVal),
                                 upload_date |-> Get(info, Key.upload_date, NoneVal)],
                 download_links |-> links,
                 requested_format |-> format_type,
                 requested_quality |-> quality])

\* lines 97-122, up to the probe call at line 60
youtube_downloader_begin(req) ==
    IF Falsy(req.url)
    THEN Finished(Failed(400, "URL parameter is required"), <<>>)
    ELSE LET url == unquote(req.url.val)
             video_id == extract_video_id(url)
         IN  IF ~video_id.found
             THEN Finished(Failed(400, "Invalid YouTube URL"), <<>>)
             ELSE Waiting("probing", <<Call("probe", url, Lit.best)>>)

\* lines 61-69 and 122-156: the probe call came back with probeOut; up to
\* the resolve-mode call at line 156
youtube_downloader_probed(req, cs, probeOut) ==
    LET format_type == lower(ArgOr(req.format, Lit.mp4))
        quality == lower(ArgOr(req.quality, Lit.best))
        probe == get_video_info(probeOut)
        done == <<Return(cs[1], probeOut)>>
    IN  IF Truthy(probe.error)
        THEN Finished(Failed(400, probe.error.text), done)
        ELSE Waiting("resolving",
                     done \o <<Call("resolve", cs[1].url,
                                    format_selector(format_type, quality))>>)

\* lines 156-237: the resolve-mode call came back with resolveOut.
\* Whatever is raised after line 97 is caught at line 232.
youtube_downloader_resolved(req, cs, resolveOut) ==
    LET format_type == lower(ArgOr(req.format, Lit.mp4))
        quality == lower(ArgOr(req.quality, Lit.best))
        done == <<cs[1], Return(cs[2], resolveOut)>>
        info == resolveOut.info
        links == download_links(info, format_type, quality)
    IN  IF resolveOut.raised
        THEN Finished(Failed(500, "Failed to process video: " \o resolveOut.text),
                      done)
        ELSE IF links.error # ""
        THEN Finished(Failed(500, "Failed to process video: " \o links.error),
                      done)
        ELSE Finished(download_success(info, links.value, format_type, quality),
                      done)

\* lines 243-263, up to the probe call at line 60
video_info_begin(req) ==
    IF Falsy(req.url)
    THEN Finished(Failed(400, "URL parameter is required"), <<>>)
    ELSE LET url == unquote(req.url.val)
             video_id == extract_video_id(url)
         IN  IF ~video_id.found
             THEN Finished(Failed(400, "Invalid YouTube URL"), <<>>)
             ELSE Waiting("probing", <<Call("probe", url, Lit.best)>>)

\* lines 61-69 and 263-295: the probe call came back with probeOut
video_info(req, cs, probeOut) ==
    LET probe == get_video_info(probeOut)
        done == <<Return(cs[1], probeOut)>>
        info == probe.info
        tags == slice(Get(info, Key.tags, List(<<>>)), TagLimit)
    IN  IF Truthy(probe.error)
        THEN Finished(Failed(400, probe.error.text), done)
        ELSE IF ~IsDict(info)
        THEN \* info is None: info.get raises AttributeError
             Finished(Failed(500, "Failed to get video info: "
                                      \o AttributeErrorText(info, "get")),
                      done)
        ELSE IF tags.error # ""
        THEN Finished(Failed(500, "Failed to get video info: " \o tags.error),
                      done)
        ELSE Finished(Response(200,
                [status |-> "success",
                 video_info |-> [id |-> Get(info, Key.id, NoneVal),
                                 title |-> Get(info, Key.title, NoneVal),
                                 uploader |-> Get(info, Key.uploader, NoneVal),
                                 duration |-> Get(info, Key.duration, NoneVal),
                                 view_count |-> Get(info, Key.view_count, NoneVal),
                                 like_count |-> Get(info, Key.like_count, NoneVal),
                                 description |-> Get(info, Key.description, Str(<<>>)),
                                 thumbnail |-> Get(info, Key.thumbnail, NoneVal),
                                 upload_date |-> Get(info, Key.upload_date, NoneVal),
                                 categories |-> Get(info, Key.categories, List(<<>>)),
                                 tags |-> tags.value,
                                 webpage_url |-> Get(info, Key.webpage_url, NoneVal)]]),
                done)

\* lines 23-34 checking only that a key is given
require_api_key_AnyKey(req, handled) ==
    IF Falsy(req.apikey)
    THEN Finished(Failed(401, "Invalid or missing API key"), <<>>)
    ELSE handled

\* lines 23-34: the decorator lets the wrapped handler, which gets as far
\* as handled, run only with the key
require_api_key(req, handled) ==
    IF Falsy(req.apikey) \/ req.apikey.val # API_KEY
    THEN Finished(Failed(401, "Invalid or missing API key"), <<>>)
    ELSE handled

\* lines 71-91
home ==
    Response(200,
        [service |-> "YouTube Downloader API",
         version |-> "1.0.0",
         endpoints |-> [download |-> Path.download, info |-> Path.info],
         usage |-> [download |-> "/api/youtube-downloader?url=YOUTUBE_URL&apikey=YOUR_API_KEY&format=mp4&quality=720p",
                    info |-> "/api/video-info?url=YOUTUBE_URL&apikey=YOUR_API_KEY"],
         parameters |-> [url |-> "YouTube video URL (required)",
                         apikey |-> "API authentication key (required)",
                         format |-> "Output format: mp4, mp3, webm (optional, default: mp4)",
                         quality |-> "Video quality: 144p, 240p, 360p, 480p, 720p, 1080p, best (optional, default: best)"]])

\* lines 297-304; service_id is os.environ.get('RENDER_SERVICE_ID', 'local')
health_check(service_id) ==
    Response(200, [status |-> "healthy",
                   service |-> "YouTube Downloader API",
                   timestamp |-> service_id])

\* lines 306-316 without the status field
not_found_NoStatus ==
    Response(404, [error |-> "Endpoint not found",
                   available_endpoints |-> <<Path.download, Path.info, Path.health>>])

\* lines 306-316
not_found ==
    Response(404, [error |-> "Endpoint not found", status |-> "failed",
                   available_endpoints |-> <<Path.download, Path.info, Path.health>>])

---------------------------------------------------------------------------
(* Inputs: requests and the answers of the extraction library.             *)

\* values the extraction library reports: a media URL and codec names
Sample ==
    [url |-> Str(Text(<<"h","t","t","p","s",":","/","/","c","d","n","/","m">>)),
     avc |-> Str(Text(<<"a","v","c","1">>)),
     vp9 |-> Str(Text(<<"v","p","9">>)),
     aac |-> Str(Text(<<"m","p","4","a">>)),
     opus |-> Str(Text(<<"o","p","u","s">>)),
     nocodec |-> Str(Lit.none)]

\* format descriptors as the extraction library reports them
VideoHigh ==
    Dict(<< <<Key.vcodec, Sample.avc>>, <<Key.acodec, Sample.aac>>, <<Key.width, Num(1280)>>,
            <<Key.height, Num(720)>>, <<Key.fps, Num(30)>>, <<Key.ext, Str(Lit.mp4)>>,
            <<Key.format_note, Str(Text(<<"7","2","0","p">>))>>,
            <<Key.filesize, Num(1000)>>, <<Key.url, Sample.url>> >>)
VideoLow ==
    Dict(<< <<Key.vcodec, Sample.avc>>, <<Key.acodec, Sample.nocodec>>,
            <<Key.height, Num(360)>>, <<Key.url, Sample.url>> >>)
VideoNoUrl ==
    Dict(<< <<Key.vcodec, Sample.vp9>>, <<Key.acodec, Sample.nocodec>>,
            <<Key.height, Num(1080)>> >>)
VideoNullHeight ==
    Dict(<< <<Key.vcodec, Sample.avc>>, <<Key.acodec, Sample.aac>>, <<Key.height, NoneVal>>,
            <<Key.url, Sample.url>> >>)
\* neither codec nor height, and a width that is not a number
VideoBare ==
    Dict(<< <<Key.acodec, Sample.aac>>,
            <<Key.width, List(<<Num(1280), Str(Text(<<"p","x">>))>>)>>,
            <<Key.url, Sample.url>> >>)
AudioHigh ==
    Dict(<< <<Key.vcodec, Sample.nocodec>>, <<Key.acodec, Sample.opus>>, <<Key.abr, Num(128)>>,
            <<Key.asr, Num(48000)>>, <<Key.url, Sample.url>> >>)

Templates == {VideoHigh, VideoNoUrl, VideoNullHeight, VideoBare, AudioHigh}

\* the catalog made of the descriptors c; the one at position i has
\* format_id i
Stamp(c) ==
    List([i \in 1..Len(c) |->
             Dict(<< <<Key.format_id, Str(Decimal(i))>> >> \o c[i].d)])

\* the info dict with the one entry key: value
Info(key, value) == Dict(<< <<key, value>> >>)

\* answers to the probe call
ProbeOutcomes ==
    {Raised(""), Raised("ERROR: Video unavailable"),
     Returned(Dict(<<>>)), Returned(NoneVal),
     Returned(Info(Key.duration, NoneVal))}
    \cup {Returned(Info(Key.duration, Num(d))) : d \in {60, MAX_DURATION, MAX_DURATION + 1}}

\* answers to the probe call of /api/video-info: the same, and info dicts
\* with tags, among them one tag more than the response shows
InfoProbeOutcomes ==
    ProbeOutcomes
    \cup {Returned(Info(Key.tags, t)) :
             t \in {NoneVal, Num(7),
                    List([i \in 1..(TagLimit + 1) |-> Str(Text(<<"t">>))])}}

\* answers to the resolve-mode call other than a format catalog: an
\* exception, an info dict without 'formats' (one with a description of one
\* character more than the response shows), a value that is no dict
PlainResolveOutcomes ==
    {Raised(""), Raised("ERROR: Requested format is not available"),
     Returned(Dict(<<>>)), Returned(Info(Key.url, Sample.url)),
     Returned(Dict(<< <<Key.url, Sample.url>>,
                      <<Key.description,
                        Str([i \in 1..(DescriptionLimit + 1) |-> Ord("d")])>> >>)),
     Returned(Dict(<< <<Key.url, Sample.url>>, <<Key.description, Num(5)>> >>)),
     Returned(NoneVal),
     Returned(Info(Key.formats, Str(Key.formats)))}

VideoId == Text(<<"a","B","1">>)
PlainUrl == ShortLit \o VideoId

UrlSamples ==
    { lit \o id \o suffix :
        lit \in {WatchLit, ShortLit, EmbedLit, LegacyLit,
                 Text(<<"y","o","u","t","u",".","b","e","%","2","F">>),
                 Text(<<"y","o","u","t","u","%","2","E","b","e","/">>),
                 Text(<<"v","i","m","e","o",".","c","o","m","/">>)},
        id \in {<<>>, VideoId},
        suffix \in {<<>>, Text(<<"%","2","6","t">>),
                    Text(<<"?","u","=">>) \o ShortLit \o Text(<<"z">>)} }
    \cup {ShortLit \o Text(<<"c","a","f","%","C","3","%","A","9">>),
          ShortLit \o Text(<<"%","F","F","%","4">>)}

\* "MP3", "WebM", and "MPΣ" with a final capital sigma
FormatParams == {Absent, Given(Text(<<"M","P","3">>)),
                 Given(Text(<<"W","e","b","M">>)),
                 Given(Text(<<"M","P">>) \o <<931>>)}
\* "360P", "4k", and the capital I with dot
QualityParams == {Absent, Given(Text(<<"3","6","0","P">>)),
                  Given(Text(<<"4","k">>)), Given(<<304>>)}

\* the requests of the clients: every route with every key, the protected
\* routes with every url, the download route with every format and quality
Requests ==
    [route : KnownRoutes \cup {"/favicon.ico"},
     apikey : {Absent, Given(<<>>), Given(Text(<<"k","e","y">>)),
               Given(SubSeq(API_KEY, 1, Len(API_KEY) - 1)), Given(API_KEY)},
     url : {Absent, Given(PlainUrl)},
     format : {Absent}, quality : {Absent}]
    \cup [route : ProtectedRoutes, apikey : {Given(API_KEY)},
          url : {Absent, Given(<<>>)} \cup {Given(u) : u \in UrlSamples},
          format : {Absent}, quality : {Absent}]
    \cup [route : {Path.download}, apikey : {Given(API_KEY)},
          url : {Given(PlainUrl)}, format : FormatParams, quality : QualityParams]

NoRequest == [route |-> "", apikey |-> Absent, url |-> Absent,
              format |-> Absent, quality |-> Absent]

\* what a client of the service sends and what the extraction library
\* answers to the calls made for it: to the resolve-mode call it answers
\* with one of plain, or with a catalog of at most maxLen descriptors drawn
\* from templates
MainTraffic ==
    [requests |-> Requests,
     probes |-> ProbeOutcomes,
     infoProbes |-> InfoProbeOutcomes,
     plain |-> PlainResolveOutcomes,
     templates |-> Templates,
     maxLen |-> MaxFormats]

\* a second connection, served while the first one is
OtherRequests ==
    [route : {Path.download}, apikey : {Given(API_KEY)}, url : {Given(PlainUrl)},
     format : {Absent}, quality : {Absent}]

OtherTraffic ==
    [requests |-> OtherRequests,
     probes |-> {Returned(Info(Key.duration, Num(60)))},
     infoProbes |-> {Returned(Info(Key.duration, Num(60)))},
     plain |-> {},
     templates |-> {},
     maxLen |-> 0]

Traffic == [c \in Clients |-> IF c = "main" THEN MainTraffic ELSE OtherTraffic]

---------------------------------------------------------------------------
(* The service: a threaded server (app.run, line 327).  Each request is    *)
(* served by its route's handler; a handler that waits for the extraction  *)
(* library leaves the processor to the others.                             *)

Init ==
    /\ phase = [c \in Clients |-> "idle"]
    /\ request = [c \in Clients |-> NoRequest]
    /\ calls = [c \in Clients |-> <<>>]
    /\ response = [c \in Clients |-> NoResponse]

\* a request of client c arrives
ReceiveFrom(traffic) ==
    \E c \in Clients :
        /\ phase[c] = "idle"
        /\ \E r \in traffic[c].requests : request' = [request EXCEPT ![c] = r]
        /\ phase' = [phase EXCEPT ![c] = "received"]
        /\ calls' = [calls EXCEPT ![c] = <<>>]
        /\ response' = [response EXCEPT ![c] = NoResponse]

Receive == ReceiveFrom(Traffic)

\* the handler of c's request runs one segment and gets to step
Advance(c, step) ==
    /\ phase' = [phase EXCEPT ![c] = step.phase]
    /\ response' = [response EXCEPT ![c] = step.response]
    /\ calls' = [calls EXCEPT ![c] = step.calls]
    /\ UNCHANGED request

Home ==
    \E c \in Clients :
        /\ phase[c] = "received"
        /\ request[c].route = Path.home
        /\ Advance(c, Finished(home, <<>>))

HealthCheck ==
    \E c \in Clients :
        /\ phase[c] = "received"
        /\ request[c].route = Path.health
        /\ \E id \in {"local", "srv-1"} : Advance(c, Finished(health_check(id), <<>>))

NotFound ==
    \E c \in Clients :
        /\ phase[c] = "received"
        /\ request[c].route \notin KnownRoutes
        /\ Advance(c, Finished(not_found, <<>>))

\* GET /api/youtube-downloader, from the decorator to the probe call
YoutubeDownloaderBegin ==
    \E c \in Clients :
        /\ phase[c] = "received"
        /\ request[c].route = Path.download
        /\ Advance(c, require_api_key(request[c],
                                      youtube_downloader_begin(request[c])))

\* the probe call of a download request comes back
YoutubeDownloaderProbedFrom(traffic) ==
    \E c \in Clients :
        /\ phase[c] = "probing"
        /\ request[c].route = Path.download
        /\ \E probeOut \in traffic[c].probes :
              Advance(c, youtube_downloader_probed(request[c], calls[c], probeOut))

YoutubeDownloaderProbed == YoutubeDownloaderProbedFrom(Traffic)

\* the resolve-mode call of a download request comes back
YoutubeDownloaderResolvedFrom(traffic) ==
    \E c \in Clients :
        /\ phase[c] = "resolving"
        /\ \E k \in 0..traffic[c].maxLen :
           \E catalog \in [1..k -> traffic[c].templates] :
           \E resolveOut \in {Returned(Info(Key.formats, Stamp(catalog)))}
                                 \cup (IF k = 0 THEN traffic[c].plain ELSE {}) :
              Advance(c, youtube_downloader_resolved(request[c], calls[c],
                                                     resolveOut))

YoutubeDownloaderResolved == YoutubeDownloaderResolvedFrom(Traffic)

\* GET /api/video-info, from the decorator to the probe call
VideoInfoBegin ==
    \E c \in Clients :
        /\ phase[c] = "received"
        /\ request[c].route = Path.info
        /\ Advance(c, require_api_key(request[c], video_info_begin(request[c])))

\* the probe call of an info request comes back
VideoInfoProbed ==
    \E c \in Clients :
        /\ phase[c] = "probing"
        /\ request[c].route = Path.info
        /\ \E probeOut \in Traffic[c].infoProbes :
              Advance(c, video_info(request[c], calls[c], probeOut))

\* the response is sent; nothing of the request outlives it
Reply ==
    \E c \in Clients :
        /\ phase[c] = "responded"
        /\ phase' = [phase EXCEPT ![c] = "idle"]
        /\ request' = [request EXCEPT ![c] = NoRequest]
        /\ calls' = [calls EXCEPT ![c] = <<>>]
        /\ response' = [response EXCEPT ![c] = NoResponse]

Next ==
    \/ Receive
    \/ Reply
    \/ Home
    \/ HealthCheck
    \/ NotFound
    \/ YoutubeDownloaderBegin
    \/ YoutubeDownloaderProbed
    \/ YoutubeDownloaderResolved
    \/ VideoInfoBegin
    \/ VideoInfoProbed

Spec == Init /\ [][Next]_vars

---------------------------------------------------------------------------
(* The download endpoint on long catalogs: authenticated requests for one *)
(* video, the extraction library answering with every catalog of at most  *)
(* MaxCatalog descriptors, while a second connection polls /health.       *)

RankingTemplates == {VideoHigh, VideoLow, VideoNoUrl, AudioHigh}

RankingRequests ==
    [route : {Path.download}, apikey : {Given(API_KEY)},
     url : {Given(PlainUrl)},
     format : {Absent, Given(Lit.mp3)}, quality : {Absent}]

PollRequests ==
    [route : {Path.health}, apikey : {Absent}, url : {Absent},
     format : {Absent}, quality : {Absent}]

RankingTraffic ==
    [c \in Clients |->
        IF c = "main"
        THEN [requests |-> RankingRequests,
              probes |-> {Returned(Info(Key.duration, Num(60)))},
              plain |-> {},
              templates |-> RankingTemplates,
              maxLen |-> MaxCatalog]
        ELSE [requests |-> PollRequests,
              probes |-> {},
              plain |-> {},
              templates |-> {},
              maxLen |-> 0]]

ReceiveRanking == ReceiveFrom(RankingTraffic)
YoutubeDownloaderProbedRanking == YoutubeDownloaderProbedFrom(RankingTraffic)
YoutubeDownloaderResolvedRanking == YoutubeDownloaderResolvedFrom(RankingTraffic)

NextRanking ==
    \/ ReceiveRanking
    \/ Reply
    \/ HealthCheck
    \/ YoutubeDownloaderBegin
    \/ YoutubeDownloaderProbedRanking
    \/ YoutubeDownloaderResolvedRanking

SpecRanking == Init /\ [][NextRanking]_vars

---------------------------------------------------------------------------
(* Vocabulary of the properties.  c is a client; the properties speak of   *)
(* the request of c that is in service.                                    *)

Done(c) == phase[c] = "responded"
\* the handler of c's request has run its first segment
Started(c) == phase[c] \in {"probing", "resolving", "responded"}
OnProtectedRoute(c) == request[c].route \in ProtectedRoutes
OnDownload(c) == request[c].route = Path.download

\* the apikey parameter is absent, empty, or differs from the secret
KeyRejected(c) ==
    \/ ~request[c].apikey.given
    \/ request[c].apikey.val = <<>>
    \/ request[c].apikey.val # API_KEY

HasStatus(r) == "status" \in DOMAIN r.body
FailedWith(r, code) == r.code = code /\ HasStatus(r) /\ r.body.status = "failed"

\* the url parameter after percent-decoding
DecodedUrl(c) == unquote(request[c].url.val)

\* at position i of s stands the literal lit followed by an identifier character
ShapeAt(lit, s, i) ==
    /\ LitAt(lit, s, i)
    /\ i + Len(lit) <= Len(s)
    /\ s[i + Len(lit)] \notin StopChars

RecognizedBy(lits, s) == \E lit \in lits : \E i \in 1..Len(s) : ShapeAt(lit, s, i)

\* id is the identifier that follows the leftmost occurrence in s of a shape
\* of lits: the characters up to the next & ? # or line end
IsLeftmostId(lits, s, id) ==
    \E lit \in lits : \E i \in 1..Len(s) :
        LET from == i + Len(lit)
            to == from + Len(id) - 1
        IN  /\ ShapeAt(lit, s, i)
            /\ \A l2 \in lits : \A j \in 1..(i - 1) : ~ShapeAt(l2, s, j)
            /\ id # <<>>
            /\ to <= Len(s)
            /\ SubSeq(s, from, to) = id
            /\ \A k \in 1..Len(id) : id[k] \notin StopChars
            /\ (to = Len(s) \/ s[to + 1] \in StopChars)

FirstPatternShapes == {WatchLit, ShortLit, EmbedLit}
FourShapes == FirstPatternShapes \cup {LegacyLit}

\* call i of c's request has come back
CameBack(c, i) == i <= Len(calls[c]) /\ calls[c][i].returned

\* c's request got as far as the resolve-mode call, that call returned a
\* format catalog, and the response is made
CatalogReturned(c) ==
    /\ Done(c)
    /\ OnDownload(c)
    /\ CameBack(c, 2)
    /\ ~calls[c][2].outcome.raised
    /\ IsDict(calls[c][2].outcome.info)
    /\ HasKey(calls[c][2].outcome.info, Key.formats)
    /\ Get(calls[c][2].outcome.info, Key.formats, NoneVal).t = "list"

\* the descriptors of the returned catalog
ReturnedCatalog(c) == Get(calls[c][2].outcome.info, Key.formats, NoneVal).l

\* the requested kind is audio
WantsAudio(c) == lower(ArgOr(request[c].format, Lit.mp4)) = Lit.mp3
RequestedQuality(c) == lower(ArgOr(request[c].quality, Lit.best))

\* position in the returned catalog of the descriptor a link was made from
SourcePos(c, link) ==
    CHOOSE k \in 1..Len(ReturnedCatalog(c)) :
        Get(ReturnedCatalog(c)[k], Key.format_id, NoneVal) = link.format_id

\* the ordering value of a descriptor, zero when it is absent or null
OrderingValue(c, fmt) ==
    LET key == IF WantsAudio(c) THEN Key.abr ELSE Key.height
    IN  IF HasKey(fmt, key) /\ ~IsNone(Get(fmt, key, NoneVal))
        THEN Get(fmt, key, NoneVal).v
        ELSE 0

DigitValue(d) == d - Ord("0")

RECURSIVE DecimalValue(_)
DecimalValue(digits) ==
    IF digits = <<>> THEN 0
    ELSE 10 * DecimalValue(SubSeq(digits, 1, Len(digits) - 1))
            + DigitValue(digits[Len(digits)])

---------------------------------------------------------------------------
(* Properties.                                                             *)

\* C1: a request to a protected route whose apikey is absent, empty or not
\* equal to the secret is answered 401 "failed" and makes no extractor call,
\* whatever its other parameters and whatever else is in service.
C1_AuthGate ==
    \A c \in Clients :
        (Started(c) /\ OnProtectedRoute(c) /\ KeyRejected(c))
            => /\ Done(c)
               /\ FailedWith(response[c], 401)
               /\ calls[c] = <<>>

\* a key one character short of the secret, with a URL the validator
\* accepts, refused while another request waits for the extractor
C1_Witness ==
    \E c, o \in Clients :
        /\ Done(c)
        /\ OnDownload(c)
        /\ request[c].apikey = Given(SubSeq(API_KEY, 1, Len(API_KEY) - 1))
        /\ request[c].url = Given(PlainUrl)
        /\ response[c].code = 401
        /\ phase[o] = "probing"

\* C2 (as claimed): download_links is the first 5 of the kind-matching
\* descriptors that have a URL, sorted descending; it has
\* min(5, number of kind-matching descriptors with a URL) entries.
C2_DiscardBeforeTruncate ==
    \A c \in Clients :
        CatalogReturned(c) =>
            LET ft == IF WantsAudio(c) THEN Lit.mp3 ELSE Lit.mp4
                usable == SelectSeq(
                              filtered_formats(List(ReturnedCatalog(c)), ft).value,
                              HasUrl)
                expected == FirstN(sorted_formats(usable, ft).value, 5)
                links == response[c].body.download_links
            IN  /\ response[c].code = 200
                /\ Len(links) = (IF Len(usable) < 5 THEN Len(usable) ELSE 5)
                /\ \A i \in 1..Len(links) :
                      links[i].format_id
                          = Get(expected[i], Key.format_id, NoneVal)

\* C3 (as claimed): an error raised by an extractor call, probe or resolve,
\* ends the request with 400 "failed" and the error's text; a 500 is never
\* the answer to an error raised by an extractor call.
C3_ExtractionErrorIs400 ==
    \A c \in Clients :
        \A i \in 1..Len(calls[c]) :
            (CameBack(c, i) /\ calls[c][i].outcome.raised)
                => /\ Done(c)
                   /\ FailedWith(response[c], 400)
                   /\ response[c].body.error = calls[c][i].outcome.text

\* C4: on the download endpoint a probed duration above the ceiling ends
\* the request with a 400 naming the duration and the ceiling, without a
\* resolve-mode call; a duration of at most the ceiling is not rejected and
\* the request goes on to the resolve-mode call.
C4_DurationCeiling ==
    \A c \in Clients :
        (/\ OnDownload(c)
         /\ CameBack(c, 1)
         /\ ~calls[c][1].outcome.raised
         /\ IsDict(calls[c][1].outcome.info)
         /\ Get(calls[c][1].outcome.info, Key.duration, NoneVal).t = "int")
            => LET d == Get(calls[c][1].outcome.info, Key.duration, NoneVal).v
               IN  IF d > 3600
                   THEN /\ Done(c)
                        /\ FailedWith(response[c], 400)
                        /\ response[c].body.error =
                              "Video too long (" \o ToString(d)
                                  \o "s). Maximum allowed: 3600s"
                        /\ Len(calls[c]) = 1
                   ELSE /\ Len(calls[c]) = 2
                        /\ calls[c][2].mode = "resolve"
                        /\ response[c].code # 400

\* a probe that reports 3601 seconds
C4_Witness ==
    \E c \in Clients :
        /\ Done(c)
        /\ OnDownload(c)
        /\ CameBack(c, 1)
        /\ calls[c][1].outcome = Returned(Info(Key.duration, Num(3601)))
        /\ response[c].code = 400

\* a probe that reports exactly 3600 seconds, followed by the resolve call
C4_BoundaryReached ==
    \E c \in Clients :
        /\ OnDownload(c)
        /\ phase[c] = "resolving"
        /\ calls[c][1].outcome = Returned(Info(Key.duration, Num(3600)))

\* C5 (as claimed): at most one probe and at most one resolve per request,
\* the resolve only on the download endpoint and only after the probe
\* returned successfully; no call follows a failed call.
C5_CallDiscipline ==
    \A c \in Clients :
        /\ Len(calls[c]) <= 2
        /\ \A i \in 1..Len(calls[c]) :
              /\ calls[c][i].mode = "probe" => i = 1
              /\ calls[c][i].mode = "resolve"
                    => /\ OnDownload(c)
                       /\ i = 2
                       /\ calls[c][1].mode = "probe"
                       /\ calls[c][1].returned
                       /\ ~calls[c][1].outcome.raised
              /\ calls[c][i].outcome.raised => i = Len(calls[c])

\* C6 (as claimed): every response has a status field that is "success"
\* or "failed".
C6_StatusEverywhere ==
    \A c \in Clients :
        Done(c) => /\ HasStatus(response[c])
                   /\ response[c].body.status \in {"success", "failed"}

\* C6 (amended): the response of / has no status field, the response of
\* /health has status "healthy", and every other response (protected
\* routes, unmatched routes) has status "success" or "failed".
C6_StatusAmended ==
    \A c \in Clients :
        Done(c) =>
            CASE request[c].route = Path.home -> ~HasStatus(response[c])
              [] request[c].route = Path.health ->
                    /\ HasStatus(response[c])
                    /\ response[c].body.status = "healthy"
              [] OTHER ->
                    /\ HasStatus(response[c])
                    /\ response[c].body.status \in {"success", "failed"}

\* an unmatched route answered 404
C6_Witness ==
    \E c \in Clients :
        /\ Done(c)
        /\ request[c].route \notin KnownRoutes
        /\ response[c].code = 404
        /\ response[c].body.status = "failed"

\* C7: with a valid key, a url that is absent, empty or of none of the four
\* shapes after percent-decoding is answered 400 "failed" without an
\* extractor call; otherwise the validator returns the identifier of the
\* first pattern that matches and the probe call is made.
C7_UrlValidation ==
    \A c \in Clients :
        (Started(c) /\ OnProtectedRoute(c) /\ ~KeyRejected(c)) =>
            IF Falsy(request[c].url) \/ ~RecognizedBy(FourShapes, DecodedUrl(c))
            THEN /\ Done(c)
                 /\ FailedWith(response[c], 400)
                 /\ calls[c] = <<>>
            ELSE /\ calls[c] # <<>>
                 /\ calls[c][1].mode = "probe"
                 /\ calls[c][1].url = DecodedUrl(c)
                 /\ LET id == extract_video_id(DecodedUrl(c))
                    IN  /\ id.found
                        /\ IF RecognizedBy(FirstPatternShapes, DecodedUrl(c))
                           THEN IsLeftmostId(FirstPatternShapes, DecodedUrl(c),
                                             id.group1)
                           ELSE IsLeftmostId({LegacyLit}, DecodedUrl(c), id.group1)

\* a legacy /v/ URL, which only the second pattern matches, waits for the
\* probe
C7_Witness ==
    \E c \in Clients :
        /\ phase[c] = "probing"
        /\ OnProtectedRoute(c)
        /\ ~KeyRejected(c)
        /\ request[c].url = Given(LegacyLit \o VideoId \o Text(<<"%","2","6","t">>))
        /\ extract_video_id(DecodedUrl(c)).group1 = VideoId

\* C8 (as claimed): whenever a catalog is returned the request succeeds and
\* the links are in descending order of height (video) or average bitrate
\* (mp3), a missing value, absent or null, counting as zero, and equal
\* values keeping their catalog order.
C8_OrderedAndStable ==
    \A c \in Clients :
        CatalogReturned(c) =>
            /\ response[c].code = 200
            /\ LET links == response[c].body.download_links
                   value(l) == OrderingValue(c, ReturnedCatalog(c)[SourcePos(c, l)])
               IN  \A i, j \in 1..Len(links) :
                      i < j =>
                        /\ value(links[i]) >= value(links[j])
                        /\ value(links[i]) = value(links[j])
                              => SourcePos(c, links[i]) < SourcePos(c, links[j])

\* C9 (as claimed): for a video request with a tier label Np the resolve
\* call asks for best[height<=N] and no link is higher than N; for quality
\* best the resolve call asks for best.
C9_TierBoundsLinks ==
    \A c \in Clients :
        (CatalogReturned(c) /\ ~WantsAudio(c) /\ response[c].code = 200) =>
            /\ RequestedQuality(c) = Lit.best => calls[c][2].format = Lit.best
            /\ RequestedQuality(c) \in QualityTiers =>
                  LET label == SubSeq(RequestedQuality(c), 1,
                                      Len(RequestedQuality(c)) - 1)
                      links == response[c].body.download_links
                  IN  /\ calls[c][2].format = Lit.heightsel \o label \o <<Ord("]")>>
                      /\ \A i \in 1..Len(links) :
                            OrderingValue(c, ReturnedCatalog(c)[SourcePos(c, links[i])])
                                <= DecimalValue(label)

\* C10 (as claimed): every success response of the download endpoint, on
\* the catalog path and on the single-URL path, has at most 5 links, each
\* with a non-empty URL.
C10_LinksUsable ==
    \A c \in Clients :
        (Done(c) /\ OnDownload(c) /\ response[c].code = 200) =>
            LET links == response[c].body.download_links
            IN  /\ Len(links) <= 5
                /\ \A i \in 1..Len(links) : IsTrue(links[i].url)

=============================================================================
